---- MODULE Spec2Model ----
(***************************************************************************)
(* Model of the trust policy evaluation engine of the AI agent            *)
(* marketplace backend (backend/services/trust_service.py, TrustService). *)
(*                                                                         *)
(* The service is stateless apart from default_policies.  A behaviour is  *)
(* one call of one method: the initial state holds the method (op) and    *)
(* its arguments (args), drawn from bounded sets, with pc = "call"; the   *)
(* action of the method applies it as the code computes it and records    *)
(* what it returned (ret) and the internal calls it made, in order        *)
(* (calls), with pc = "done".  The arguments are the caller's objects:    *)
(* args after the action is what the call left of them.  verify_trust may *)
(* then be called a second time with the same arguments (pc = "again"),   *)
(* prev keeping what the first call returned.                             *)
(*                                                                         *)
(* Two more specifications share the module: MainSpec, the request        *)
(* handlers of main.py over agents_db and messages_db, which call the     *)
(* trust service, and WsSpec, the ConnectionManager.  Each specification  *)
(* keeps the variables of the others at their initial values.             *)
(*                                                                         *)
(* Python values of type Any are tagged records: PyInt(n), PyStr(s),      *)
(* PyList(<<..>>), PyDict(<<..>>), PyNone.  A dict is the sequence of its *)
(* <<key, value>> items in insertion order, keys unique.  Floats are      *)
(* exact rationals <<numerator, denominator>> in lowest terms: every      *)
(* score the engine computes is a sum of powers of 1/2 divided by a small *)
(* count, for which the comparisons with 0.0, 1.0 and 0.7 made on         *)
(* doubles agree with the exact ones.  A raised exception is the value    *)
(* Raise(name) and a normal return Ok(value) wherever the code can raise. *)
(***************************************************************************)
EXTENDS Integers, Sequences, FiniteSets, TLC

VARIABLES
    \* the trust service and one call of one of its methods
    default_policies, pc, op, args, ret, calls, prev,
    \* the application (main.py): its stores, what it handed to
    \* manager.broadcast_message, and the response to the last request
    agents_db, messages_db, broadcasts, response,
    \* the connection manager (websocket_manager.py), the runs of
    \* websocket_endpoint (one per websocket, in the order they connected),
    \* and the last delivery of send_personal_message
    active_connections, agent_connections, endpoints, delivered

trust_vars == <<default_policies, pc, op, args, ret, calls, prev>>

main_vars == <<agents_db, messages_db, broadcasts, response>>

ws_vars == <<active_connections, agent_connections, endpoints, delivered>>

vars == <<trust_vars, main_vars, ws_vars>>

-----------------------------------------------------------------------------
(* Bounds of the model *)

\* longest trust_policies list of a source agent
MaxPolicies == 2
\* most rules in one generated policy
MaxRules == 3
\* longest list of policy results handed to _calculate_trust_score directly
MaxResults == 3

-----------------------------------------------------------------------------
(* Python values *)

PyInt(n) == [int |-> n]
PyStr(s) == [str |-> s]
PyList(q) == [list |-> q]
PyDict(q) == [dict |-> q]
PyNone == [none |-> TRUE]

IsInt(v) == "int" \in DOMAIN v
IsStr(v) == "str" \in DOMAIN v
IsList(v) == "list" \in DOMAIN v
IsDict(v) == "dict" \in DOMAIN v
IsNone(v) == "none" \in DOMAIN v

\* bool(v), as `if v:` and `v and ...` take it
Truthy(v) ==
    IF IsNone(v) THEN FALSE
    ELSE IF IsInt(v) THEN v.int # 0
    ELSE IF IsStr(v) THEN v.str # ""
    ELSE IF IsList(v) THEN Len(v.list) > 0
    ELSE Len(v.dict) > 0

Raise(e) == [raised |-> e]
Ok(v) == [value |-> v]
IsRaise(r) == "raised" \in DOMAIN r

\* a <= b.  Two ints compare; an int against a str, a list, a dict or None
\* raises TypeError, and so does None against anything.  (Two strs or two
\* lists compare lexicographically in Python; the input sets of this model
\* never pair them.)
PyLeq(a, b) ==
    IF IsInt(a) /\ IsInt(b) THEN Ok(a.int <= b.int) ELSE Raise("TypeError")

\* x in c.  A list holds x iff an element equals it (values of different
\* types are unequal, never an error); a dict holds its keys; None and ints
\* are not iterable.  (A str container means substring search; the input
\* sets of this model hold no str where a collection is read.)
PyIn(x, c) ==
    IF IsList(c) THEN Ok(\E i \in DOMAIN c.list : c.list[i] = x)
    ELSE IF IsDict(c) THEN Ok(IsStr(x) /\ \E i \in DOMAIN c.dict : c.dict[i][1] = x.str)
    ELSE Raise("TypeError")

-----------------------------------------------------------------------------
(* dict operations on item sequences *)

HasKey(d, k) == \E i \in DOMAIN d : d[i][1] = k

Lookup(d, k) == d[CHOOSE i \in DOMAIN d : d[i][1] = k][2]

\* d.get(k, default)
Get(d, k, default) == IF HasKey(d, k) THEN Lookup(d, k) ELSE default

\* d[k] = v : an existing key keeps its place, a new key goes last
SetItem(d, k, v) ==
    IF HasKey(d, k)
    THEN [i \in DOMAIN d |-> IF d[i][1] = k THEN <<k, v>> ELSE d[i]]
    ELSE Append(d, <<k, v>>)

\* d.update(e)
RECURSIVE Update(_, _)
Update(d, e) ==
    IF Len(e) = 0 THEN d
    ELSE Update(SetItem(d, Head(e)[1], Head(e)[2]), Tail(e))

-----------------------------------------------------------------------------
(* floats as exact rationals *)

RECURSIVE GCD(_, _)
GCD(a, b) == IF b = 0 THEN a ELSE GCD(b, a % b)

Rat(n, d) == LET g == GCD(n, d) IN <<n \div g, d \div g>>

FZero == <<0, 1>>
FOne == <<1, 1>>
FHalf == <<1, 2>>

FMul(a, b) == Rat(a[1] * b[1], a[2] * b[2])
FAdd(a, b) == Rat(a[1] * b[2] + b[1] * a[2], a[2] * b[2])
FDivInt(a, n) == Rat(a[1], a[2] * n)
FLeq(a, b) == a[1] * b[2] <= b[1] * a[2]
FMin(a, b) == IF FLeq(b, a) THEN b ELSE a

-----------------------------------------------------------------------------
(* the rule functions *)

\* faulty variant of esg_passed: the lower bound is exclusive
esg_passed_strict(min_score, esg_score, max_score) ==
    LET lower == PyLeq(min_score, esg_score)
        upper == PyLeq(esg_score, max_score)
    IN  IF IsRaise(lower) THEN lower
        ELSE IF ~lower.value \/ min_score = esg_score THEN Ok(FALSE)
        ELSE upper

\* faulty variant of esg_passed: the upper bound is not compared
esg_passed_no_max(min_score, esg_score, max_score) ==
    PyLeq(min_score, esg_score)

\* trust_service.py:147  passed = min_score <= esg_score <= max_score
\* (a chained comparison: the second is not made when the first is false)
esg_passed(min_score, esg_score, max_score) ==
    LET lower == PyLeq(min_score, esg_score)
        upper == PyLeq(esg_score, max_score)
    IN  IF IsRaise(lower) THEN lower
        ELSE IF ~lower.value THEN Ok(FALSE)
        ELSE upper

_evaluate_esg_rule(rule_config, agent_data) ==
    IF ~IsDict(rule_config) THEN Raise("AttributeError")
    ELSE
    LET esg_score == Get(agent_data, "esg_score", PyInt(50))
        min_score == Get(rule_config.dict, "min", PyInt(0))
        max_score == Get(rule_config.dict, "max", PyInt(100))
        passed == esg_passed(min_score, esg_score, max_score)
    IN  IF IsRaise(passed) THEN passed
        ELSE [passed |-> passed.value,
              reason |-> <<"ESG score ", esg_score,
                           IF passed.value THEN " meets" ELSE " does not meet",
                           " requirement (", min_score, "-", max_score, ")">>,
              value |-> esg_score,
              requirement |-> rule_config]

\* `c and x in c`: the membership test is made only for a truthy c
TruthyAndIn(c, x) == IF Truthy(c) THEN PyIn(x, c) ELSE Ok(FALSE)

\* `c and x not in c`
TruthyAndNotIn(c, x) ==
    IF ~Truthy(c) THEN Ok(FALSE)
    ELSE LET m == PyIn(x, c) IN IF IsRaise(m) THEN m ELSE Ok(~m.value)

\* faulty variant of is_preferred: membership only, so no list means not
\* preferred
is_preferred_membership(agent_jurisdiction, preferred_jurisdictions) ==
    IF IsList(preferred_jurisdictions) \/ IsDict(preferred_jurisdictions)
    THEN PyIn(agent_jurisdiction, preferred_jurisdictions)
    ELSE Ok(FALSE)

\* trust_service.py:182
\* agent_jurisdiction in preferred_jurisdictions if preferred_jurisdictions else True
is_preferred(agent_jurisdiction, preferred_jurisdictions) ==
    IF Truthy(preferred_jurisdictions)
    THEN PyIn(agent_jurisdiction, preferred_jurisdictions)
    ELSE Ok(TRUE)

\* faulty variant of _evaluate_jurisdiction_rule: the allowed list is read
\* first, and a jurisdiction it holds passes without the blocked list being read
_evaluate_jurisdiction_rule_allowed_first(rule_config, agent_data) ==
    IF ~IsDict(rule_config) THEN Raise("AttributeError")
    ELSE
    LET agent_jurisdiction == Get(agent_data, "jurisdiction", PyStr("UNKNOWN"))
        allowed_jurisdictions == Get(rule_config.dict, "allowed", PyList(<<>>))
        blocked_jurisdictions == Get(rule_config.dict, "blocked", PyList(<<>>))
        is_allowed == TruthyAndIn(allowed_jurisdictions, agent_jurisdiction)
        not_allowed == TruthyAndNotIn(allowed_jurisdictions, agent_jurisdiction)
        is_blocked == TruthyAndIn(blocked_jurisdictions, agent_jurisdiction)
    IN  IF IsRaise(is_allowed) THEN is_allowed
        ELSE IF is_allowed.value
        THEN [passed |-> TRUE, value |-> agent_jurisdiction, requirement |-> rule_config]
        ELSE IF not_allowed.value
        THEN [passed |-> FALSE, value |-> agent_jurisdiction, requirement |-> rule_config]
        ELSE IF IsRaise(is_blocked) THEN is_blocked
        ELSE [passed |-> ~is_blocked.value, value |-> agent_jurisdiction,
              requirement |-> rule_config]

\* faulty variant of _evaluate_jurisdiction_rule: with a preferred list, a
\* jurisdiction outside it fails
_evaluate_jurisdiction_rule_preferred_only(rule_config, agent_data) ==
    IF ~IsDict(rule_config) THEN Raise("AttributeError")
    ELSE
    LET agent_jurisdiction == Get(agent_data, "jurisdiction", PyStr("UNKNOWN"))
        allowed_jurisdictions == Get(rule_config.dict, "allowed", PyList(<<>>))
        blocked_jurisdictions == Get(rule_config.dict, "blocked", PyList(<<>>))
        preferred_jurisdictions == Get(rule_config.dict, "preferred", PyList(<<>>))
        is_blocked == TruthyAndIn(blocked_jurisdictions, agent_jurisdiction)
        not_allowed == TruthyAndNotIn(allowed_jurisdictions, agent_jurisdiction)
        is_pref ==      IF Truthy(preferred_jurisdictions)
                        THEN PyIn(agent_jurisdiction, preferred_jurisdictions)
                        ELSE Ok(TRUE)
    IN  IF IsRaise(is_blocked) THEN is_blocked
        ELSE IF is_blocked.value
        THEN [passed |-> FALSE,
              reason |-> <<"Jurisdiction ", agent_jurisdiction, " is blocked">>,
              value |-> agent_jurisdiction,
              requirement |-> rule_config]
        ELSE IF IsRaise(not_allowed) THEN not_allowed
        ELSE IF not_allowed.value
        THEN [passed |-> FALSE,
              reason |-> <<"Jurisdiction ", agent_jurisdiction, " is not in allowed list">>,
              value |-> agent_jurisdiction,
              requirement |-> rule_config]
        ELSE IF IsRaise(is_pref) THEN is_pref
        ELSE [passed |-> is_pref.value,
              reason |-> <<"Jurisdiction ", agent_jurisdiction, " is ",
                           IF is_pref.value THEN "preferred" ELSE "acceptable">>,
              value |-> agent_jurisdiction,
              requirement |-> rule_config,
              preferred |-> is_pref.value]

_evaluate_jurisdiction_rule(rule_config, agent_data) ==
    IF ~IsDict(rule_config) THEN Raise("AttributeError")
    ELSE
    LET agent_jurisdiction == Get(agent_data, "jurisdiction", PyStr("UNKNOWN"))
        allowed_jurisdictions == Get(rule_config.dict, "allowed", PyList(<<>>))
        blocked_jurisdictions == Get(rule_config.dict, "blocked", PyList(<<>>))
        preferred_jurisdictions == Get(rule_config.dict, "preferred", PyList(<<>>))
        is_blocked == TruthyAndIn(blocked_jurisdictions, agent_jurisdiction)
        not_allowed == TruthyAndNotIn(allowed_jurisdictions, agent_jurisdiction)
        is_pref == is_preferred(agent_jurisdiction, preferred_jurisdictions)
    IN  IF IsRaise(is_blocked) THEN is_blocked
        ELSE IF is_blocked.value
        THEN [passed |-> FALSE,
              reason |-> <<"Jurisdiction ", agent_jurisdiction, " is blocked">>,
              value |-> agent_jurisdiction,
              requirement |-> rule_config]
        ELSE IF IsRaise(not_allowed) THEN not_allowed
        ELSE IF not_allowed.value
        THEN [passed |-> FALSE,
              reason |-> <<"Jurisdiction ", agent_jurisdiction, " is not in allowed list">>,
              value |-> agent_jurisdiction,
              requirement |-> rule_config]
        ELSE IF IsRaise(is_pref) THEN is_pref
        ELSE [passed |-> TRUE,
              reason |-> <<"Jurisdiction ", agent_jurisdiction, " is ",
                           IF is_pref.value THEN "preferred" ELSE "acceptable">>,
              value |-> agent_jurisdiction,
              requirement |-> rule_config,
              preferred |-> is_pref.value]

\* faulty variant of _evaluate_size_rule: an empty allowed list is read as
\* no restriction, as the jurisdiction and sector rules read theirs
_evaluate_size_rule_empty_allows_all(rule_config, agent_data) ==
    IF ~IsDict(rule_config) THEN Raise("AttributeError")
    ELSE
    LET size == Get(agent_data, "organization_size", PyStr("medium"))
        allowed_sizes == Get(rule_config.dict, "allowed",
                             PyList(<<PyStr("small"), PyStr("medium"),
                                      PyStr("large"), PyStr("enterprise")>>))
        passed == IF Truthy(allowed_sizes) THEN PyIn(size, allowed_sizes) ELSE Ok(TRUE)
    IN  IF IsRaise(passed) THEN passed
        ELSE [passed |-> passed.value,
              reason |-> <<"Organization size ", size,
                           IF passed.value THEN " is" ELSE " is not",
                           " in allowed list">>,
              value |-> size,
              requirement |-> rule_config]

_evaluate_size_rule(rule_config, agent_data) ==
    IF ~IsDict(rule_config) THEN Raise("AttributeError")
    ELSE
    LET size == Get(agent_data, "organization_size", PyStr("medium"))
        allowed_sizes == Get(rule_config.dict, "allowed",
                             PyList(<<PyStr("small"), PyStr("medium"),
                                      PyStr("large"), PyStr("enterprise")>>))
        passed == PyIn(size, allowed_sizes)
    IN  IF IsRaise(passed) THEN passed
        ELSE [passed |-> passed.value,
              reason |-> <<"Organization size ", size,
                           IF passed.value THEN " is" ELSE " is not",
                           " in allowed list">>,
              value |-> size,
              requirement |-> rule_config]

\* faulty variant of _evaluate_sector_rule: the allowed list is read first,
\* and a sector it holds passes without the blocked list being read
_evaluate_sector_rule_allowed_first(rule_config, agent_data) ==
    IF ~IsDict(rule_config) THEN Raise("AttributeError")
    ELSE
    LET sector == Get(agent_data, "sector", PyStr("unknown"))
        allowed_sectors == Get(rule_config.dict, "allowed", PyList(<<>>))
        blocked_sectors == Get(rule_config.dict, "blocked", PyList(<<>>))
        is_allowed == TruthyAndIn(allowed_sectors, sector)
        not_allowed == TruthyAndNotIn(allowed_sectors, sector)
        is_blocked == TruthyAndIn(blocked_sectors, sector)
    IN  IF IsRaise(is_allowed) THEN is_allowed
        ELSE IF is_allowed.value
        THEN [passed |-> TRUE,
              reason |-> <<"Sector ", sector, " is acceptable">>,
              value |-> sector,
              requirement |-> rule_config]
        ELSE IF not_allowed.value
        THEN [passed |-> FALSE,
              reason |-> <<"Sector ", sector, " is not in allowed list">>,
              value |-> sector,
              requirement |-> rule_config]
        ELSE IF IsRaise(is_blocked) THEN is_blocked
        ELSE [passed |-> ~is_blocked.value,
              reason |-> <<"Sector ", sector,
                           IF is_blocked.value THEN " is blocked" ELSE " is acceptable">>,
              value |-> sector,
              requirement |-> rule_config]

_evaluate_sector_rule(rule_config, agent_data) ==
    IF ~IsDict(rule_config) THEN Raise("AttributeError")
    ELSE
    LET sector == Get(agent_data, "sector", PyStr("unknown"))
        allowed_sectors == Get(rule_config.dict, "allowed", PyList(<<>>))
        blocked_sectors == Get(rule_config.dict, "blocked", PyList(<<>>))
        is_blocked == TruthyAndIn(blocked_sectors, sector)
        not_allowed == TruthyAndNotIn(allowed_sectors, sector)
    IN  IF IsRaise(is_blocked) THEN is_blocked
        ELSE IF is_blocked.value
        THEN [passed |-> FALSE,
              reason |-> <<"Sector ", sector, " is blocked">>,
              value |-> sector,
              requirement |-> rule_config]
        ELSE IF IsRaise(not_allowed) THEN not_allowed
        ELSE IF not_allowed.value
        THEN [passed |-> FALSE,
              reason |-> <<"Sector ", sector, " is not in allowed list">>,
              value |-> sector,
              requirement |-> rule_config]
        ELSE [passed |-> TRUE,
              reason |-> <<"Sector ", sector, " is acceptable">>,
              value |-> sector,
              requirement |-> rule_config]

\* faulty variant of _evaluate_rule: a rule name that is not known is
\* rejected instead of skipped
_evaluate_rule_rejects_unknown(rule_name, rule_config, agent_data) ==
    LET r == IF rule_name = "esg_score"
             THEN _evaluate_esg_rule(rule_config, agent_data)
             ELSE IF rule_name = "jurisdiction"
             THEN _evaluate_jurisdiction_rule(rule_config, agent_data)
             ELSE IF rule_name = "organization_size"
             THEN _evaluate_size_rule(rule_config, agent_data)
             ELSE IF rule_name = "sector"
             THEN _evaluate_sector_rule(rule_config, agent_data)
             ELSE [passed |-> FALSE,
                   reason |-> <<"Unknown rule ", rule_name>>]
    IN  IF IsRaise(r)
        THEN [passed |-> FALSE, reason |-> <<"Rule evaluation error: ", r.raised>>]
        ELSE r

\* the dispatch on the rule name; an exception of a rule function becomes a
\* failed rule result
_evaluate_rule(rule_name, rule_config, agent_data) ==
    LET r == IF rule_name = "esg_score"
             THEN _evaluate_esg_rule(rule_config, agent_data)
             ELSE IF rule_name = "jurisdiction"
             THEN _evaluate_jurisdiction_rule(rule_config, agent_data)
             ELSE IF rule_name = "organization_size"
             THEN _evaluate_size_rule(rule_config, agent_data)
             ELSE IF rule_name = "sector"
             THEN _evaluate_sector_rule(rule_config, agent_data)
             ELSE [passed |-> TRUE,
                   reason |-> <<"Unknown rule ", rule_name, " - skipped">>]
    IN  IF IsRaise(r)
        THEN [passed |-> FALSE, reason |-> <<"Rule evaluation error: ", r.raised>>]
        ELSE r

-----------------------------------------------------------------------------
(* attribute resolution *)

\* dict.update(v) for a value v of any type: a mapping is merged; None and
\* ints are not iterable (TypeError); a non-empty str is a sequence of
\* one-character elements, none of them a pair (ValueError); an empty str or
\* list adds nothing.  (The input sets hold no non-empty list here.)
UpdateAny(d, v) ==
    IF IsDict(v) THEN Ok(Update(d, v.dict))
    ELSE IF IsNone(v) \/ IsInt(v) THEN Raise("TypeError")
    ELSE IF Truthy(v) THEN Raise("ValueError")
    ELSE Ok(d)

\* trust_service.py:250-255
defaults ==
    << <<"esg_score", PyInt(75)>>,
       <<"jurisdiction", PyStr("EU")>>,
       <<"organization_size", PyStr("medium")>>,
       <<"sector", PyStr("technology")>> >>

\* faulty variant of SetDefaults: every default is assigned, also over a
\* value the sources gave
SetDefaults_overwrite(agent_data, defs) == Update(agent_data, defs)

\* trust_service.py:257-259  a default is set only for a key not yet present
RECURSIVE SetDefaults(_, _)
SetDefaults(agent_data, defs) ==
    IF Len(defs) = 0 THEN agent_data
    ELSE SetDefaults(IF HasKey(agent_data, Head(defs)[1])
                     THEN agent_data
                     ELSE SetItem(agent_data, Head(defs)[1], Head(defs)[2]),
                     Tail(defs))

\* faulty variant of _extract_agent_data: the sources are merged in the
\* opposite order, so metadata overrides the credential's claims
_extract_agent_data_metadata_wins(agent) ==
    LET from_claims ==
            IF Truthy(agent.vlei_credential)
            THEN UpdateAny(<<>>,
                           Get(agent.vlei_credential.dict, "credentialSubject", PyDict(<<>>)))
            ELSE Ok(<<>>)
        details == IF Truthy(agent.verification_details)
                   THEN agent.verification_details.dict
                   ELSE <<>>
        metadata == IF Truthy(agent.metadata) THEN agent.metadata.dict ELSE <<>>
    IN  IF IsRaise(from_claims) THEN from_claims
        ELSE Ok(SetDefaults(Update(Update(from_claims.value, details), metadata), defaults))

\* Ok(the resolved attributes) or the exception dict.update raises on a
\* credentialSubject that is no mapping
_extract_agent_data(agent) ==
    LET from_metadata == IF Truthy(agent.metadata) THEN agent.metadata.dict ELSE <<>>
        with_details == IF Truthy(agent.verification_details)
                        THEN Update(from_metadata, agent.verification_details.dict)
                        ELSE from_metadata
        with_claims ==
            IF Truthy(agent.vlei_credential)
            THEN UpdateAny(with_details,
                           Get(agent.vlei_credential.dict, "credentialSubject", PyDict(<<>>)))
            ELSE Ok(with_details)
    IN  IF IsRaise(with_claims) THEN with_claims
        ELSE Ok(SetDefaults(with_claims.value, defaults))

\* faulty variant of agent_after_extract: data is the metadata dict
\* itself, so the merged sources and the defaults are written into the agent
agent_after_extract_in_place(agent) ==
    LET data == _extract_agent_data(agent)
    IN  IF ~Truthy(agent.metadata) THEN agent
        ELSE IF IsRaise(data)
        THEN [agent EXCEPT !.metadata =
                 PyDict(Update(agent.metadata.dict,
                               IF Truthy(agent.verification_details)
                               THEN agent.verification_details.dict ELSE <<>>))]
        ELSE [agent EXCEPT !.metadata = PyDict(data.value)]

\* the agent after _extract_agent_data: data is a copy of the metadata
\* (`agent.metadata.copy()`) or a new dict, every update and default is
\* written to it, and the agent's own fields are only read
agent_after_extract(agent) == agent

-----------------------------------------------------------------------------
(* policy evaluation *)

\* faulty variant of apply_rule_result: a failed rule sets the score to 0.5
\* instead of halving it
apply_rule_result_fixed_penalty(policy_result, rule_name, rule_result) ==
    LET recorded == [policy_result EXCEPT
                        !.details = SetItem(@, rule_name, rule_result)]
    IN  IF ~rule_result.passed
        THEN [recorded EXCEPT !.passed = FALSE, !.score = FHalf]
        ELSE recorded

\* faulty variant of apply_rule_result: passed is overwritten by every rule,
\* so the last rule decides
apply_rule_result_last_rule_wins(policy_result, rule_name, rule_result) ==
    LET recorded == [policy_result EXCEPT
                        !.details = SetItem(@, rule_name, rule_result),
                        !.passed = rule_result.passed]
    IN  IF ~rule_result.passed
        THEN [recorded EXCEPT !.score = FMul(@, FHalf)]
        ELSE recorded

\* faulty variant of apply_rule_result: a failed rule takes the whole score
apply_rule_result_zero_on_failure(policy_result, rule_name, rule_result) ==
    LET recorded == [policy_result EXCEPT
                        !.details = SetItem(@, rule_name, rule_result)]
    IN  IF ~rule_result.passed
        THEN [recorded EXCEPT !.passed = FALSE, !.score = FZero]
        ELSE recorded

\* trust_service.py:104-108  the body of the loop over the rules
apply_rule_result(policy_result, rule_name, rule_result) ==
    LET recorded == [policy_result EXCEPT
                        !.details = SetItem(@, rule_name, rule_result)]
    IN  IF ~rule_result.passed
        THEN [recorded EXCEPT !.passed = FALSE, !.score = FMul(@, FHalf)]
        ELSE recorded

\* trust_service.py:101-108  for rule_name, rule_config in rules.items()
RECURSIVE evaluate_rules(_, _, _)
evaluate_rules(rules, agent_data, policy_result) ==
    IF Len(rules) = 0 THEN policy_result
    ELSE evaluate_rules(
            Tail(rules), agent_data,
            apply_rule_result(policy_result, Head(rules)[1],
                              _evaluate_rule(Head(rules)[1], Head(rules)[2], agent_data)))

\* faulty variant of _evaluate_policy: an exception during the evaluation
\* is swallowed and the policy counts as passed
_evaluate_policy_error_passes(policy, target_agent) ==
    LET agent_data == _extract_agent_data(target_agent)
    IN  IF IsRaise(agent_data)
        THEN [policy_name |-> policy.name,
              passed |-> TRUE,
              details |-> << <<"error", agent_data.raised>> >>,
              score |-> FOne]
        ELSE evaluate_rules(policy.rules, agent_data.value,
                            [policy_name |-> policy.name,
                             passed |-> TRUE,
                             details |-> <<>>,
                             score |-> FOne])

_evaluate_policy(policy, target_agent) ==
    LET agent_data == _extract_agent_data(target_agent)
    IN  IF IsRaise(agent_data)
        THEN [policy_name |-> policy.name,
              passed |-> FALSE,
              details |-> << <<"error", agent_data.raised>> >>,
              score |-> FZero]
        ELSE evaluate_rules(policy.rules, agent_data.value,
                            [policy_name |-> policy.name,
                             passed |-> TRUE,
                             details |-> <<>>,
                             score |-> FOne])

\* faulty variant of _evaluate_policy_calls: the rules are evaluated
\* without the attributes being resolved in this call
_evaluate_policy_calls_no_resolution(policy, target_agent) ==
    << [fn |-> "_evaluate_policy", policy |-> policy, agent |-> target_agent] >>
    \o (IF IsRaise(_extract_agent_data(target_agent)) THEN <<>>
        ELSE [i \in 1..Len(policy.rules) |->
                [fn |-> "_evaluate_rule", rule_name |-> policy.rules[i][1]]])

\* the calls _evaluate_policy makes, in order
_evaluate_policy_calls(policy, target_agent) ==
    << [fn |-> "_evaluate_policy", policy |-> policy, agent |-> target_agent],
       [fn |-> "_extract_agent_data", agent |-> target_agent] >>
    \o (IF IsRaise(_extract_agent_data(target_agent)) THEN <<>>
        ELSE [i \in 1..Len(policy.rules) |->
                [fn |-> "_evaluate_rule", rule_name |-> policy.rules[i][1]]])

-----------------------------------------------------------------------------
(* the trust score *)

\* sum(result["score"] for result in policy_results)
RECURSIVE total_score(_)
total_score(policy_results) ==
    IF Len(policy_results) = 0 THEN FZero
    ELSE FAdd(Head(policy_results).score, total_score(Tail(policy_results)))

\* faulty variant of _calculate_trust_score: the total is not divided by the
\* number of results
_calculate_trust_score_total(policy_results) ==
    IF Len(policy_results) = 0 THEN FZero
    ELSE FMin(total_score(policy_results), FOne)

\* faulty variant of _calculate_trust_score: the best policy score, not
\* the mean
_calculate_trust_score_best(policy_results) ==
    IF Len(policy_results) = 0 THEN FZero
    ELSE LET scores == {policy_results[i].score : i \in DOMAIN policy_results}
         IN  FMin(CHOOSE s \in scores : \A t \in scores : FLeq(t, s), FOne)

_calculate_trust_score(policy_results) ==
    IF Len(policy_results) = 0 THEN FZero
    ELSE FMin(FDivInt(total_score(policy_results), Len(policy_results)), FOne)

-----------------------------------------------------------------------------
(* the service *)

_load_default_policies ==
    << [id |-> "default-esg",
        name |-> "ESG Compliance",
        description |-> "Minimum ESG score requirement",
        rules |-> << <<"esg_score", PyDict(<< <<"min", PyInt(60)>> >>)>> >>],
       [id |-> "default-jurisdiction",
        name |-> "Jurisdiction Trust",
        description |-> "Acceptable jurisdictions for business",
        rules |-> << <<"jurisdiction",
                       PyDict(<< <<"preferred",
                                   PyList(<<PyStr("EU"), PyStr("US"), PyStr("CA"),
                                            PyStr("UK"), PyStr("AU")>>)>>,
                                 <<"blocked", PyList(<<PyStr("SANCTIONED")>>)>> >>)>> >>] >>

\* faulty variant of lacks_verified_credential: `and` for `or`
lacks_verified_credential_both(source_agent, target_agent) ==
    ~source_agent.credential_verified /\ ~target_agent.credential_verified

\* faulty variant of lacks_verified_credential: only the source is tested
lacks_verified_credential_source_only(source_agent, target_agent) ==
    ~source_agent.credential_verified

\* trust_service.py:23
lacks_verified_credential(source_agent, target_agent) ==
    ~source_agent.credential_verified \/ ~target_agent.credential_verified

\* faulty variant of policies_to_check: no fallback to the default policies
policies_to_check_no_default(source_agent) ==
    source_agent.trust_policies

\* faulty variant of policies_to_check: the default policies are always added
policies_to_check_mixed(source_agent) ==
    source_agent.trust_policies \o default_policies

\* trust_service.py:42
policies_to_check(source_agent) ==
    IF Len(source_agent.trust_policies) > 0
    THEN source_agent.trust_policies
    ELSE default_policies

\* faulty variant of allowed: the score alone decides
allowed_by_score_alone(trust_score, policies_failed) ==
    FLeq(<<7, 10>>, trust_score)

\* trust_service.py:57  trust_score >= 0.7 and len(policies_failed) == 0
allowed(trust_score, policies_failed) ==
    FLeq(<<7, 10>>, trust_score) /\ Len(policies_failed) = 0

\* faulty variant of Join: the names follow each other without a separator
Join_no_separator(names) == names

\* ', '.join(names), as the pieces of the joined string
RECURSIVE Join(_)
Join(names) ==
    IF Len(names) = 0 THEN <<>>
    ELSE IF Len(names) = 1 THEN <<names[1]>>
    ELSE <<names[1], ", ">> \o Join(Tail(names))

\* trust_service.py:44-51  the policy results, in the order of the policies
evaluate_policies(policies, target_agent) ==
    [i \in 1..Len(policies) |-> _evaluate_policy(policies[i], target_agent)]

\* faulty variant of names_where: a name is listed once, as if the names
\* were collected in a set
names_where_unique(policies, policy_results, flag) ==
    LET idx == SelectSeq([i \in 1..Len(policies) |-> i],
                         LAMBDA i : /\ policy_results[i].passed = flag
                                    /\ \A j \in 1..(i - 1) :
                                          ~(/\ policy_results[j].passed = flag
                                            /\ policies[j].name = policies[i].name))
    IN  [k \in 1..Len(idx) |-> policies[idx[k]].name]

\* the names of the policies whose result has the given passed flag
RECURSIVE names_where(_, _, _)
names_where(policies, policy_results, flag) ==
    IF Len(policies) = 0 THEN <<>>
    ELSE (IF Head(policy_results).passed = flag THEN <<Head(policies).name>> ELSE <<>>)
         \o names_where(Tail(policies), Tail(policy_results), flag)

\* the argument is an Agent.  The signature is a type hint only: a caller
\* can hand None, and reading credential_verified of it raises AttributeError
IsAgent(a) == ~IsNone(a)

\* the result of the handler `except Exception as e` around the whole body
system_error(e) ==
    [allowed |-> FALSE,
     reason |-> <<"Trust verification error: ", e>>,
     score |-> FZero,
     policies_passed |-> <<>>,
     policies_failed |-> <<"system_error">>,
     verification_details |-> [error |-> e]]

\* now is the value datetime.utcnow() returns.  Of the statements in the
\* try block only _evaluate_policy can raise on Agent objects as models.py
\* validates them, and it catches every exception itself; an argument that
\* is not an Agent ends in the handler around the body.
verify_trust(source_agent, target_agent, now) ==
    IF ~IsAgent(source_agent) \/ ~IsAgent(target_agent)
    THEN system_error("'NoneType' object has no attribute 'credential_verified'")
    ELSE
    IF lacks_verified_credential(source_agent, target_agent)
    THEN [allowed |-> FALSE,
          reason |-> <<"One or both agents lack verified vLEI credentials">>,
          score |-> FZero,
          policies_passed |-> <<>>,
          policies_failed |-> <<"credential_verification">>,
          verification_details |->
              [source_verified |-> source_agent.credential_verified,
               target_verified |-> target_agent.credential_verified]]
    ELSE
    LET policy_results == evaluate_policies(policies_to_check(source_agent), target_agent)
        policies_passed == names_where(policies_to_check(source_agent), policy_results, TRUE)
        policies_failed == names_where(policies_to_check(source_agent), policy_results, FALSE)
        trust_score == _calculate_trust_score(policy_results)
        is_allowed == allowed(trust_score, policies_failed)
    IN  [allowed |-> is_allowed,
         reason |-> IF is_allowed THEN <<"Trust verification passed">>
                    ELSE <<"Failed policies: ">> \o Join(policies_failed),
         score |-> trust_score,
         policies_passed |-> policies_passed,
         policies_failed |-> policies_failed,
         verification_details |->
             [policy_results |-> policy_results, timestamp |-> now]]

\* the calls verify_trust makes, in order
RECURSIVE policy_calls(_, _)
policy_calls(policies, target_agent) ==
    IF Len(policies) = 0 THEN <<>>
    ELSE _evaluate_policy_calls(Head(policies), target_agent)
         \o policy_calls(Tail(policies), target_agent)

verify_trust_calls(source_agent, target_agent) ==
    IF ~IsAgent(source_agent) \/ ~IsAgent(target_agent) THEN <<>>
    ELSE IF lacks_verified_credential(source_agent, target_agent) THEN <<>>
    ELSE policy_calls(policies_to_check(source_agent), target_agent)
         \o << [fn |-> "_calculate_trust_score"] >>

\* the target after verify_trust: its attributes are resolved for every
\* policy evaluated, none when the call ends before the loop
target_after_verify_trust(source_agent, target_agent) ==
    IF ~IsAgent(source_agent) \/ ~IsAgent(target_agent) THEN target_agent
    ELSE IF lacks_verified_credential(source_agent, target_agent) THEN target_agent
    ELSE IF Len(policies_to_check(source_agent)) = 0 THEN target_agent
    ELSE agent_after_extract(target_agent)

-----------------------------------------------------------------------------
(* the inputs of the calls *)

\* all sequences over S of length at most n
SeqsUpTo(S, n) == UNION {[1..k -> S] : k \in 0..n}

\* the dicts with no item or one item k: v, v in vals
OptItem(k, vals) == {<<>>} \cup {<< <<k, v>> >> : v \in vals}

StrList(q) == PyList([i \in DOMAIN q |-> PyStr(q[i])])

EsgConfigs ==
    {PyDict(lo \o hi) :
        lo \in OptItem("min", {PyInt(60), PyInt(85), PyInt(90), PyNone}),
        hi \in OptItem("max", {PyInt(84), PyInt(88)})}
    \cup {PyInt(5)}

EsgData ==
    OptItem("esg_score",
            {PyInt(n) : n \in {-1, 0, 45, 60, 84, 85, 88, 100, 101}} \cup {PyStr("high")})

JurisdictionConfigs ==
    {PyDict(a \o b \o c) :
        a \in OptItem("allowed", {StrList(<<>>), StrList(<<"EU", "US">>),
                                  StrList(<<"SANCTIONED", "EU">>), PyInt(1)}),
        b \in OptItem("blocked", {StrList(<<>>), StrList(<<"SANCTIONED">>),
                                  StrList(<<"EU", "SANCTIONED">>), PyNone}),
        c \in OptItem("preferred", {StrList(<<>>), StrList(<<"EU">>),
                                    StrList(<<"SANCTIONED">>)})}

JurisdictionData ==
    OptItem("jurisdiction", {PyStr("EU"), PyStr("US"), PyStr("SANCTIONED"), PyStr("XX")})

SizeConfigs ==
    {PyDict(a \o b) :
        a \in OptItem("allowed", {StrList(<<>>), StrList(<<"large", "enterprise">>),
                                  StrList(<<"small", "micro">>), PyNone, PyInt(3)}),
        b \in OptItem("blocked", {StrList(<<"large">>)})}
    \cup {PyNone}

SizeData ==
    OptItem("organization_size",
            {PyStr("small"), PyStr("medium"), PyStr("large"), PyStr("enterprise"),
             PyStr("micro")})

SectorConfigs ==
    {PyDict(a \o b) :
        a \in OptItem("allowed", {StrList(<<>>), StrList(<<"technology">>),
                                  StrList(<<"technology", "weapons">>), PyInt(1)}),
        b \in OptItem("blocked", {StrList(<<>>), StrList(<<"weapons">>), PyNone})}
    \cup {PyStr("technology")}

SectorData ==
    OptItem("sector", {PyStr("technology"), PyStr("weapons"), PyStr("finance")})

\* the calls of _evaluate_rule: rule name, rule config, agent data
RuleCalls ==
    [rule_name : {"esg_score"}, rule_config : EsgConfigs, agent_data : EsgData]
    \cup [rule_name : {"jurisdiction"}, rule_config : JurisdictionConfigs,
          agent_data : JurisdictionData]
    \cup [rule_name : {"organization_size"}, rule_config : SizeConfigs,
          agent_data : SizeData]
    \cup [rule_name : {"sector"}, rule_config : SectorConfigs, agent_data : SectorData]
    \cup [rule_name : {"foo", "esg"},
          rule_config : {PyDict(<<>>), PyDict(<< <<"min", PyInt(101)>> >>), PyInt(5),
                         PyStr("strict"), StrList(<<"EU">>), PyNone},
          agent_data : {<<>>, << <<"esg_score", PyInt(45)>> >>}]

\* the rules the generated policies are made of
RuleLib ==
    { <<"esg_score", PyDict(<< <<"min", PyInt(85)>> >>)>>,
      <<"esg_score", PyDict(<< <<"min", PyInt(90)>> >>)>>,
      <<"esg_score", PyDict(<< <<"min", PyInt(60)>>, <<"max", PyInt(80)>> >>)>>,
      <<"esg_score", PyDict(<< <<"min", PyNone>> >>)>>,
      <<"jurisdiction", PyDict(<< <<"blocked", StrList(<<"SANCTIONED">>)>>,
                                   <<"preferred", StrList(<<"EU", "US">>)>> >>)>>,
      <<"jurisdiction", PyDict(<< <<"allowed", StrList(<<"US">>)>> >>)>>,
      <<"organization_size", PyDict(<< <<"allowed", StrList(<<"large", "enterprise">>)>> >>)>>,
      <<"sector", PyDict(<< <<"blocked", StrList(<<"weapons">>)>> >>)>>,
      <<"foo", PyDict(<<>>)>> }

\* rules is a dict: no two items share a rule name
UniqueKeys(d) == \A i, j \in DOMAIN d : d[i][1] = d[j][1] => i = j

Policy(name, rules) ==
    [id |-> name, name |-> name, description |-> "", rules |-> rules]

GeneratedPolicies ==
    {Policy("generated", rules) : rules \in {d \in SeqsUpTo(RuleLib, MaxRules) : UniqueKeys(d)}}

\* the policies the source agents of verify_trust carry
PolicyLib ==
    { Policy("High ESG", << <<"esg_score", PyDict(<< <<"min", PyInt(85)>> >>)>> >>),
      Policy("Strict ESG", << <<"esg_score", PyDict(<< <<"min", PyInt(90)>> >>)>> >>),
      Policy("US only, strict ESG",
             << <<"esg_score", PyDict(<< <<"min", PyInt(90)>> >>)>>,
                <<"jurisdiction", PyDict(<< <<"allowed", StrList(<<"US">>)>> >>)>> >>),
      Policy("No sanctions",
             << <<"jurisdiction", PyDict(<< <<"blocked", StrList(<<"SANCTIONED">>)>> >>)>> >>),
      Policy("High ESG",
             << <<"sector", PyDict(<< <<"blocked", StrList(<<"weapons">>)>> >>)>> >>),
      Policy("Empty", <<>>) }

MetadataSet ==
    { PyDict(<<>>),
      PyDict(<< <<"esg_score", PyInt(45)>>, <<"jurisdiction", PyStr("SANCTIONED")>> >>),
      PyDict(<< <<"esg_score", PyInt(88)>>, <<"sector", PyStr("weapons")>> >>) }

VerificationDetailsSet ==
    { PyNone,
      PyDict(<< <<"verification_method", PyStr("development_mode")>>,
                <<"esg_score", PyInt(84)>> >>) }

CredentialSet ==
    { PyNone,
      PyDict(<< <<"issuer", PyStr("did:gleif")>> >>),
      PyDict(<< <<"issuer", PyStr("did:gleif")>>,
                <<"credentialSubject",
                  PyDict(<< <<"esg_score", PyInt(85)>>, <<"jurisdiction", PyStr("US")>> >>)>> >>),
      PyDict(<< <<"credentialSubject",
                  PyDict(<< <<"esg_score", PyStr("high")>>,
                            <<"organization_size", PyStr("large")>> >>)>> >>),
      PyDict(<< <<"credentialSubject", PyStr("did:example:subject")>> >>) }

Agents(verified, policy_lists, metadatas, details, credentials) ==
    [credential_verified : verified,
     trust_policies : policy_lists,
     metadata : metadatas,
     verification_details : details,
     vlei_credential : credentials]

\* source agents: every policy list, one set of attributes
SourceAgents ==
    Agents(BOOLEAN, SeqsUpTo(PolicyLib, MaxPolicies),
           {PyDict(<< <<"esg_score", PyInt(45)>> >>)}, {PyNone}, {PyNone})

\* target agents: every combination of attribute sources, with and without
\* policies of their own
TargetAgents ==
    Agents(BOOLEAN, {<<>>, <<Policy("Target's own", << <<"esg_score", PyDict(<< <<"min", PyInt(101)>> >>)>> >>)>>},
           MetadataSet, VerificationDetailsSet, CredentialSet)

\* the targets of the direct calls of _evaluate_policy, which reads the
\* attribute sources only
PolicyTargets ==
    Agents({TRUE}, {<<>>}, MetadataSet, {PyNone}, CredentialSet)

\* the agents of the direct calls of _extract_agent_data
ExtractAgents ==
    Agents({TRUE}, {<<>>},
           MetadataSet \cup {PyDict(<< <<"lei", PyStr("5493001KJTIIGC8Y1R12")>>,
                                       <<"sector", PyStr("finance")>> >>)},
           VerificationDetailsSet
               \cup {PyDict(<< <<"jurisdiction", PyStr("XX")>>, <<"esg_score", PyInt(60)>> >>)},
           CredentialSet
               \cup {PyDict(<<>>),
                     PyDict(<< <<"credentialSubject", PyDict(<<>>)>> >>),
                     PyDict(<< <<"credentialSubject",
                                 PyDict(<< <<"lei", PyStr("254900OPPU84GM83MG36")>>,
                                           <<"sector", PyStr("energy")>> >>)>> >>)})

\* the values datetime.utcnow() may return
Timestamps == {"t1", "t2"}

\* policy results handed to _calculate_trust_score
PolicyResults ==
    [policy_name : {"p"}, passed : BOOLEAN, details : {<<>>},
     score : {FZero, <<1, 4>>, FHalf, FOne, <<3, 2>>}]

-----------------------------------------------------------------------------
(* identity verification and the creation of an agent *)

\* bool is an int: True == 1 and False == 0
PyTrue == PyInt(1)
PyFalse == PyInt(0)

\* identity_service.py:76-105.  Building the result reads
\* credential.get("credentialSubject", {}).get("id", ...), which raises
\* AttributeError for a credentialSubject that is not a mapping.
_mock_credential_verification(credential, now) ==
    LET no_subject == ~Truthy(Get(credential.dict, "credentialSubject", PyNone))
        no_issuer == ~Truthy(Get(credential.dict, "issuer", PyNone))
        started == << <<"mock", PyTrue>>,
                      <<"verification_method", PyStr("development_mode")>>,
                      <<"timestamp", PyStr(now)>> >>
        subject_checked == IF no_subject
                           THEN SetItem(started, "error", PyStr("Missing credentialSubject"))
                           ELSE started
        verification_details == IF no_issuer
                                THEN SetItem(subject_checked, "error", PyStr("Missing issuer"))
                                ELSE subject_checked
    IN  IF ~IsDict(Get(credential.dict, "credentialSubject", PyDict(<<>>)))
        THEN Raise("AttributeError")
        ELSE Ok([is_valid |-> ~no_subject /\ ~no_issuer,
                 details |-> PyDict(verification_details)])

\* what the GLEIF presentation handler does with a request: it answers 200
\* with verified true or false, or it cannot be reached
GleifOutcomes == {"verified", "rejected", "unreachable"}

\* identity_service.py:22-74.  An exception in the try block, raised by
\* the request or by reading the credentialSubject, ends in the mock
\* verification.
verify_vlei_credential(credential, gleif, now) ==
    IF gleif = "unreachable"
        \/ ~IsDict(Get(credential.dict, "credentialSubject", PyDict(<<>>)))
    THEN _mock_credential_verification(credential, now)
    ELSE Ok([is_valid |-> gleif = "verified",
             details |-> PyDict(<< <<"verified",
                                     IF gleif = "verified" THEN PyTrue ELSE PyFalse>> >>)])

\* main.py:73-90  the agent create_agent stores, or the exception it ends
\* with: KeyError for a missing name or organization, a validation error
\* for a credential that is not a mapping.  metadata is never given, so it
\* is the model's default {}.
new_agent(agent_data, gleif, now) ==
    IF ~HasKey(agent_data, "name") \/ ~HasKey(agent_data, "organization")
    THEN Raise("KeyError")
    ELSE
    LET vlei_credential == Get(agent_data, "vlei_credential", PyNone)
        agent == [name |-> Lookup(agent_data, "name"),
                  organization |-> Lookup(agent_data, "organization"),
                  vlei_credential |-> vlei_credential,
                  credential_verified |-> FALSE,
                  verification_details |-> PyNone,
                  trust_policies |-> Get(agent_data, "trust_policies", <<>>),
                  status |-> "inactive",
                  last_active |-> PyNone,
                  metadata |-> PyDict(<<>>)]
        verification == verify_vlei_credential(vlei_credential, gleif, now)
    IN  IF ~IsDict(vlei_credential) /\ ~IsNone(vlei_credential)
        THEN Raise("ValidationError")
        ELSE IF ~Truthy(vlei_credential) THEN Ok(agent)
        ELSE IF IsRaise(verification) THEN verification
        ELSE Ok([agent EXCEPT !.credential_verified = verification.value.is_valid,
                              !.verification_details = verification.value.details])

\* the demonstration: demo.py:17-105, an agent's name, organization,
\* metadata and trust policies
demo_agents ==
    << [name |-> "ESG Procurement Agent", organization |-> "Green Tech Solutions Inc.",
        metadata |-> << <<"sector", PyStr("technology")>>, <<"jurisdiction", PyStr("EU")>>,
                        <<"esg_score", PyInt(88)>>, <<"organization_size", PyStr("medium")>> >>,
        trust_policies |->
          << Policy("ESG Excellence Standard",
                    << <<"esg_score", PyDict(<< <<"min", PyInt(85)>> >>)>> >>),
             Policy("EU Jurisdiction Preference",
                    << <<"jurisdiction",
                         PyDict(<< <<"preferred", StrList(<<"EU", "UK">>)>>,
                                   <<"blocked", StrList(<<"SANCTIONED">>)>> >>)>> >>) >>],
       [name |-> "Supply Chain Optimizer", organization |-> "Global Manufacturing Corp",
        metadata |-> << <<"sector", PyStr("manufacturing")>>, <<"jurisdiction", PyStr("US")>>,
                        <<"esg_score", PyInt(75)>>, <<"organization_size", PyStr("large")>> >>,
        trust_policies |->
          << Policy("Minimum ESG Compliance",
                    << <<"esg_score", PyDict(<< <<"min", PyInt(60)>> >>)>> >>),
             Policy("Global Reach",
                    << <<"jurisdiction",
                         PyDict(<< <<"allowed",
                                     StrList(<<"US", "EU", "CA", "UK", "AU">>)>> >>)>> >>) >>],
       [name |-> "Sustainable Finance Agent", organization |-> "EcoBank International",
        metadata |-> << <<"sector", PyStr("finance")>>, <<"jurisdiction", PyStr("EU")>>,
                        <<"esg_score", PyInt(95)>>, <<"organization_size", PyStr("enterprise")>> >>,
        trust_policies |->
          << Policy("Premium ESG Standards",
                    << <<"esg_score", PyDict(<< <<"min", PyInt(90)>> >>)>> >>),
             Policy("Regulated Markets Only",
                    << <<"jurisdiction",
                         PyDict(<< <<"allowed", StrList(<<"EU", "US", "UK", "CA">>)>> >>)>> >>) >>],
       [name |-> "Basic Trade Agent", organization |-> "Standard Trading Co",
        metadata |-> << <<"sector", PyStr("retail")>>, <<"jurisdiction", PyStr("OTHER")>>,
                        <<"esg_score", PyInt(45)>>, <<"organization_size", PyStr("small")>> >>,
        trust_policies |->
          << Policy("Open Trading Policy",
                    << <<"esg_score", PyDict(<< <<"min", PyInt(30)>> >>)>> >>) >>] >>

\* demo.py:112-132  the credential made for an agent; the claims of its
\* subject are esgScore, jurisdiction and sector
demo_vlei_credential(agent_config) ==
    PyDict(<< <<"issuer", PyStr("did:keri:gleif")>>,
              <<"credentialSubject",
                PyDict(<< <<"id", PyStr("did:keri:organization")>>,
                          <<"legalName", PyStr(agent_config.organization)>>,
                          <<"lei", PyStr("LEI")>>,
                          <<"esgScore", Lookup(agent_config.metadata, "esg_score")>>,
                          <<"jurisdiction", Lookup(agent_config.metadata, "jurisdiction")>>,
                          <<"sector", Lookup(agent_config.metadata, "sector")>> >>)>> >>)

\* demo.py:145-152  the body of the POST /api/agents
demo_agent_data(agent_config) ==
    << <<"name", PyStr(agent_config.name)>>,
       <<"organization", PyStr(agent_config.organization)>>,
       <<"vlei_credential", demo_vlei_credential(agent_config)>>,
       <<"trust_policies", agent_config.trust_policies>>,
       <<"metadata", PyDict(agent_config.metadata)>> >>

\* demo.py:185-190, counted from 1
test_pairs == { <<1, 2>>, <<2, 1>>, <<3, 4>>, <<4, 3>> }

\* the agent the application stores for the i-th demo agent, for every
\* answer of GLEIF and every time of the request
DemoAgents(i) ==
    {new_agent(demo_agent_data(demo_agents[i]), gleif, now).value :
        gleif \in GleifOutcomes, now \in Timestamps}

\* demo.py:192-206  the verifications the demonstration asks for
DemoCalls ==
    UNION {[source_agent : DemoAgents(pair[1]),
            target_agent : DemoAgents(pair[2]),
            now : Timestamps] : pair \in test_pairs}

-----------------------------------------------------------------------------
(* the calls *)

\* the application before its first request
MainIdle ==
    /\ agents_db = <<>>
    /\ messages_db = <<>>
    /\ broadcasts = <<>>
    /\ response = PyNone

\* ConnectionManager.__init__
WsIdle ==
    /\ active_connections = <<>>
    /\ agent_connections = <<>>
    /\ endpoints = <<>>
    /\ delivered = PyNone

Init ==
    /\ MainIdle /\ WsIdle
    /\ default_policies = _load_default_policies
    /\ pc = "call"
    /\ ret = PyNone
    /\ prev = PyNone
    /\ calls = <<>>
    /\ \/ /\ op = "verify_trust"
          /\ args \in [source_agent : SourceAgents \cup {PyNone},
                       target_agent : TargetAgents \cup {PyNone},
                       now : Timestamps]
                      \cup DemoCalls
       \/ /\ op = "_evaluate_policy"
          /\ args \in [policy : GeneratedPolicies, target_agent : PolicyTargets]
       \/ /\ op = "_evaluate_rule"
          /\ args \in RuleCalls
       \/ /\ op = "_calculate_trust_score"
          /\ args \in [policy_results : SeqsUpTo(PolicyResults, MaxResults)]
       \/ /\ op = "_extract_agent_data"
          /\ args \in [agent : ExtractAgents]

VerifyTrust ==
    /\ pc = "call" /\ op = "verify_trust"
    /\ ret' = verify_trust(args.source_agent, args.target_agent, args.now)
    /\ calls' = verify_trust_calls(args.source_agent, args.target_agent)
    /\ args' = [args EXCEPT !.target_agent =
                    target_after_verify_trust(args.source_agent, @)]
    /\ pc' = "done"
    /\ UNCHANGED <<default_policies, op, prev>>
    /\ UNCHANGED <<main_vars, ws_vars>>

\* a second call with the arguments of the first, at a time of its own
VerifyTrustAgain ==
    /\ pc = "done" /\ op = "verify_trust"
    /\ \E now \in Timestamps :
          ret' = verify_trust(args.source_agent, args.target_agent, now)
    /\ prev' = ret
    /\ calls' = verify_trust_calls(args.source_agent, args.target_agent)
    /\ args' = [args EXCEPT !.target_agent =
                    target_after_verify_trust(args.source_agent, @)]
    /\ pc' = "again"
    /\ UNCHANGED <<default_policies, op>>
    /\ UNCHANGED <<main_vars, ws_vars>>

EvaluatePolicy ==
    /\ pc = "call" /\ op = "_evaluate_policy"
    /\ ret' = _evaluate_policy(args.policy, args.target_agent)
    /\ calls' = _evaluate_policy_calls(args.policy, args.target_agent)
    /\ args' = [args EXCEPT !.target_agent = agent_after_extract(@)]
    /\ pc' = "done"
    /\ UNCHANGED <<default_policies, op, prev>>
    /\ UNCHANGED <<main_vars, ws_vars>>

EvaluateRule ==
    /\ pc = "call" /\ op = "_evaluate_rule"
    /\ ret' = _evaluate_rule(args.rule_name, args.rule_config, args.agent_data)
    /\ calls' = <<>>
    /\ pc' = "done"
    /\ UNCHANGED <<default_policies, op, args, prev>>
    /\ UNCHANGED <<main_vars, ws_vars>>

CalculateTrustScore ==
    /\ pc = "call" /\ op = "_calculate_trust_score"
    /\ ret' = _calculate_trust_score(args.policy_results)
    /\ calls' = <<>>
    /\ pc' = "done"
    /\ UNCHANGED <<default_policies, op, args, prev>>
    /\ UNCHANGED <<main_vars, ws_vars>>

\* ret is Ok(the attributes) or Raise(the exception the call ends with)
ExtractAgentData ==
    /\ pc = "call" /\ op = "_extract_agent_data"
    /\ ret' = _extract_agent_data(args.agent)
    /\ calls' = <<>>
    /\ args' = [args EXCEPT !.agent = agent_after_extract(@)]
    /\ pc' = "done"
    /\ UNCHANGED <<default_policies, op, prev>>
    /\ UNCHANGED <<main_vars, ws_vars>>

Next ==
    \/ VerifyTrust
    \/ VerifyTrustAgain
    \/ EvaluatePolicy
    \/ EvaluateRule
    \/ CalculateTrustScore
    \/ ExtractAgentData

Spec == Init /\ [][Next]_vars

-----------------------------------------------------------------------------
(* the application: the request handlers of main.py *)

\* agents_db holds at most MaxAgents agents, messages are sent while
\* messages_db holds fewer than MaxMessages
MaxAgents == 2
MaxMessages == 1

\* the requests to POST /api/agents, each with what GLEIF does with it
CreateRequests ==
    LET named == << <<"name", PyStr("agent")>>, <<"organization", PyStr("org")>> >>
        issuer == <<"issuer", PyStr("did:gleif")>>
        subject(n) == <<"credentialSubject", PyDict(<< <<"esg_score", PyInt(n)>> >>)>>
        high_esg == Policy("High ESG", << <<"esg_score", PyDict(<< <<"min", PyInt(85)>> >>)>> >>)
    IN  { [agent_data |-> named, gleif |-> "unreachable"],
          [agent_data |-> named \o << <<"vlei_credential", PyDict(<<issuer, subject(88)>>)>>,
                                      <<"trust_policies", <<high_esg>> >> >>,
           gleif |-> "unreachable"],
          [agent_data |-> named \o << <<"vlei_credential", PyDict(<<issuer, subject(45)>>)>> >>,
           gleif |-> "verified"],
          [agent_data |-> named \o << <<"vlei_credential", PyDict(<<issuer, subject(45)>>)>> >>,
           gleif |-> "rejected"],
          [agent_data |-> named \o << <<"vlei_credential", PyDict(<<subject(88)>>)>> >>,
           gleif |-> "unreachable"],
          [agent_data |-> named \o << <<"vlei_credential",
                                        PyDict(<<issuer, <<"credentialSubject",
                                                           PyStr("did:example:subject")>> >>)>> >>,
           gleif |-> "verified"],
          [agent_data |-> named \o << <<"vlei_credential", PyStr("credential")>> >>,
           gleif |-> "verified"],
          [agent_data |-> << <<"organization", PyStr("org")>> >>, gleif |-> "unreachable"] }

\* the ids a request can name: those of agents_db and one no agent has.
\* An agent's id is its position in agents_db (the code draws a fresh uuid4).
AgentIds == 1..(MaxAgents + 1)

\* the times of the requests
MainClock == {"t1"}

\* POST /api/agents, main.py:69-99
create_agent ==
    /\ Len(agents_db) < MaxAgents
    /\ \E request \in CreateRequests, now \in MainClock :
          LET created == new_agent(request.agent_data, request.gleif, now)
          IN  IF IsRaise(created)
              THEN /\ response' = [op |-> "create_agent", status |-> 400,
                                   detail |-> created.raised]
                   /\ UNCHANGED agents_db
              ELSE /\ agents_db' = Append(agents_db, created.value)
                   /\ response' = [op |-> "create_agent", status |-> 200,
                                   agent_id |-> Len(agents_db) + 1]
    /\ UNCHANGED <<messages_db, broadcasts>>
    /\ UNCHANGED <<trust_vars, ws_vars>>

\* faulty variant of may_activate: the credential is not looked at
may_activate_unverified(agent) == TRUE

\* main.py:120  `if not agent.credential_verified: raise`
may_activate(agent) == agent.credential_verified

\* POST /api/agents/{agent_id}/activate, main.py:113-126
activate_agent ==
    /\ \E agent_id \in AgentIds, now \in MainClock :
          IF agent_id \notin DOMAIN agents_db
          THEN /\ response' = [op |-> "activate_agent", status |-> 404,
                               agent_id |-> agent_id]
               /\ UNCHANGED agents_db
          ELSE IF ~may_activate(agents_db[agent_id])
          THEN /\ response' = [op |-> "activate_agent", status |-> 400,
                               agent_id |-> agent_id]
               /\ UNCHANGED agents_db
          ELSE /\ agents_db' = [agents_db EXCEPT ![agent_id].status = "active",
                                                 ![agent_id].last_active = PyStr(now)]
               /\ response' = [op |-> "activate_agent", status |-> 200,
                               agent_id |-> agent_id]
    /\ UNCHANGED <<messages_db, broadcasts>>
    /\ UNCHANGED <<trust_vars, ws_vars>>

\* the bodies of POST /api/messages: sender and receiver ids, with and
\* without content, with and without ai_process, and one without a sender
MessageRequests ==
    {from \o to \o content \o ai :
        from \in {<< <<"from_agent_id", i>> >> : i \in AgentIds},
        to \in {<< <<"to_agent_id", i>> >> : i \in AgentIds},
        content \in {<< <<"content", PyStr("hello")>> >>},
        ai \in OptItem("ai_process", {PyTrue})}
    \cup { << <<"to_agent_id", 1>>, <<"content", PyStr("hello")>> >>,
           << <<"from_agent_id", 1>>, <<"to_agent_id", 1>> >> }

\* what ai_service.process_message returns: a reply in the name of the
\* receiver, or None (no response text, or an exception it caught)
AiOutcomes == {"reply", "none"}

\* main.py:182-189  (the id and the timestamp, fresh values, are left out)
AgentMessage(message_data) ==
    [from_agent_id |-> Lookup(message_data, "from_agent_id"),
     to_agent_id |-> Lookup(message_data, "to_agent_id"),
     content |-> Lookup(message_data, "content"),
     message_type |-> Get(message_data, "message_type", "text"),
     ai_processed |-> FALSE]

\* ai_service.py:40-48  the reply goes from the receiver to the sender
response_message(message) ==
    [from_agent_id |-> message.to_agent_id,
     to_agent_id |-> message.from_agent_id,
     content |-> PyStr("reply"),
     message_type |-> "ai_response",
     ai_processed |-> TRUE]

\* websocket_manager.py:47  json.dumps(message) of message.dict(), whose
\* timestamp is a datetime: TypeError, before anything is sent
broadcast_message(message) == Raise("TypeError")

\* main.py:191-197  what the request appends to messages_db
appended(message_data, ai) ==
    <<AgentMessage(message_data)>>
    \o (IF Truthy(Get(message_data, "ai_process", PyFalse)) /\ ai = "reply"
        THEN <<response_message(AgentMessage(message_data))>>
        ELSE <<>>)

\* POST /api/messages, main.py:165-206.  Every exception, the
\* HTTPException(403) of a blocked message included, is caught at :204 and
\* answered with 400.
send_message ==
    /\ Len(messages_db) < MaxMessages
    /\ \E message_data \in MessageRequests, now \in MainClock :
       \E ai \in (IF Truthy(Get(message_data, "ai_process", PyFalse))
                  THEN AiOutcomes ELSE {"none"}) :
          IF \/ ~HasKey(message_data, "from_agent_id")
             \/ Lookup(message_data, "from_agent_id") \notin DOMAIN agents_db
             \/ Lookup(message_data, "to_agent_id") \notin DOMAIN agents_db
          THEN /\ response' = [op |-> "send_message", status |-> 400,
                               detail |-> "KeyError"]
               /\ UNCHANGED <<messages_db, broadcasts>>
          ELSE
          LET trust_result ==
                  verify_trust(agents_db[Lookup(message_data, "from_agent_id")],
                               agents_db[Lookup(message_data, "to_agent_id")], now)
              sent == broadcast_message(AgentMessage(message_data))
          IN  IF ~trust_result.allowed
              THEN /\ response' = [op |-> "send_message", status |-> 400,
                                   detail |-> "403: Communication blocked",
                                   from_agent_id |-> Lookup(message_data, "from_agent_id"),
                                   to_agent_id |-> Lookup(message_data, "to_agent_id"),
                                   allowed |-> FALSE]
                   /\ UNCHANGED <<messages_db, broadcasts>>
              ELSE IF ~HasKey(message_data, "content")
              THEN /\ response' = [op |-> "send_message", status |-> 400,
                                   detail |-> "KeyError"]
                   /\ UNCHANGED <<messages_db, broadcasts>>
              ELSE /\ messages_db' = messages_db \o appended(message_data, ai)
                   /\ IF IsRaise(sent)
                      THEN /\ response' = [op |-> "send_message", status |-> 400,
                                           detail |-> sent.raised,
                                           from_agent_id |-> Lookup(message_data, "from_agent_id"),
                                           to_agent_id |-> Lookup(message_data, "to_agent_id"),
                                           allowed |-> TRUE]
                           /\ UNCHANGED broadcasts
                      ELSE /\ response' = [op |-> "send_message", status |-> 200,
                                           detail |-> "Message sent successfully",
                                           from_agent_id |-> Lookup(message_data, "from_agent_id"),
                                           to_agent_id |-> Lookup(message_data, "to_agent_id"),
                                           allowed |-> TRUE]
                           /\ broadcasts' = Append(broadcasts, AgentMessage(message_data))
    /\ UNCHANGED agents_db
    /\ UNCHANGED <<trust_vars, ws_vars>>

\* the trust service is constructed (main.py:52) and no method of it is
\* called from outside the handlers
MainInit ==
    /\ MainIdle /\ WsIdle
    /\ default_policies = _load_default_policies
    /\ pc = "idle" /\ op = "none" /\ args = PyNone /\ ret = PyNone
    /\ prev = PyNone /\ calls = <<>>

MainNext == create_agent \/ activate_agent \/ send_message

MainSpec == MainInit /\ [][MainNext]_vars

-----------------------------------------------------------------------------
(* the connection manager: websocket_manager.py, driven by               *)
(* websocket_endpoint of main.py                                          *)

\* the number of websockets that connect
MaxConnects == 3

\* the agent ids of the paths /ws/{agent_id}
WsAgents == {"A", "B", "C"}

\* del d[k]
DelItem(d, k) == SelectSeq(d, LAMBDA item : item[1] # k)

\* websocket_manager.py:20  f"conn_{len(self.active_connections)}"; the
\* model keeps the number
connection_id == Len(active_connections)

\* main.py:218 with websocket_manager.py:17-23.  A websocket is the
\* position of its endpoint in endpoints.
connect ==
    /\ Len(endpoints) < MaxConnects
    /\ \E agent_id \in WsAgents :
          /\ active_connections' =
                SetItem(active_connections, connection_id, Len(endpoints) + 1)
          /\ agent_connections' = SetItem(agent_connections, agent_id, connection_id)
          /\ endpoints' = Append(endpoints, [agent_id |-> agent_id, open |-> TRUE])
    /\ UNCHANGED delivered
    /\ UNCHANGED <<trust_vars, main_vars>>

\* websocket_manager.py:25-31  the maps after disconnect(websocket,
\* agent_id); the websocket is not read
disconnected(agent_id) ==
    IF HasKey(agent_connections, agent_id)
        /\ HasKey(active_connections, Lookup(agent_connections, agent_id))
    THEN [active_connections |->
              DelItem(active_connections, Lookup(agent_connections, agent_id)),
          agent_connections |-> DelItem(agent_connections, agent_id)]
    ELSE [active_connections |-> active_connections,
          agent_connections |-> agent_connections]

\* main.py:228-229  the endpoint of a websocket gets WebSocketDisconnect
\* and calls disconnect with its own websocket and agent id
disconnect ==
    /\ \E websocket \in DOMAIN endpoints :
          /\ endpoints[websocket].open
          /\ active_connections' =
                disconnected(endpoints[websocket].agent_id).active_connections
          /\ agent_connections' =
                disconnected(endpoints[websocket].agent_id).agent_connections
          /\ endpoints' = [endpoints EXCEPT ![websocket].open = FALSE]
    /\ UNCHANGED delivered
    /\ UNCHANGED <<trust_vars, main_vars>>

\* main.py:221-226 with websocket_manager.py:33-43  an endpoint receives a
\* text and sends it to its own agent; send_text succeeds, or it raises
\* and the connection is removed
send_personal_message ==
    /\ \E websocket \in DOMAIN endpoints, sent \in BOOLEAN :
          LET agent_id == endpoints[websocket].agent_id
          IN  /\ endpoints[websocket].open
              /\ HasKey(agent_connections, agent_id)
              /\ HasKey(active_connections, Lookup(agent_connections, agent_id))
              /\ IF sent
                 THEN /\ delivered' =
                           [agent_id |-> agent_id,
                            websocket |-> Lookup(active_connections,
                                                 Lookup(agent_connections, agent_id))]
                      /\ UNCHANGED <<active_connections, agent_connections>>
                 ELSE /\ active_connections' = disconnected(agent_id).active_connections
                      /\ agent_connections' = disconnected(agent_id).agent_connections
                      /\ UNCHANGED delivered
    /\ UNCHANGED endpoints
    /\ UNCHANGED <<trust_vars, main_vars>>

WsInit ==
    /\ WsIdle /\ MainIdle
    /\ default_policies = _load_default_policies
    /\ pc = "idle" /\ op = "none" /\ args = PyNone /\ ret = PyNone
    /\ prev = PyNone /\ calls = <<>>

WsNext == connect \/ disconnect \/ send_personal_message

WsSpec == WsInit /\ [][WsNext]_vars

-----------------------------------------------------------------------------
(* Properties *)

Returned(name) == pc = "done" /\ op = name

BothAgents == IsAgent(args.source_agent) /\ IsAgent(args.target_agent)

BothVerified ==
    /\ BothAgents
    /\ args.source_agent.credential_verified /\ args.target_agent.credential_verified

\* the policies handed to _evaluate_policy during the call, in order
EvaluatedPolicies ==
    LET evals == SelectSeq(calls, LAMBDA c : c.fn = "_evaluate_policy")
    IN  [i \in 1..Len(evals) |-> evals[i].policy]

\* C1: when the source or the target agent is not credential-verified, verify_trust
\* returns allowed = false, score = 0.0, policies_passed = [] and
\* policies_failed = ["credential_verification"], and makes no call that
\* evaluates a policy or a rule, whatever the policies and attributes are.
C1_VerificationGate ==
    (Returned("verify_trust") /\ BothAgents /\ ~BothVerified)
    => /\ ret.allowed = FALSE
       /\ ret.score = <<0, 1>>
       /\ ret.policies_passed = <<>>
       /\ ret.policies_failed = <<"credential_verification">>
       /\ calls = <<>>

\* a verified source with policies of its own met an unverified target
\* whose attributes would fail them
C1_Witness ==
    /\ Returned("verify_trust") /\ BothAgents
    /\ args.source_agent.credential_verified
    /\ ~args.target_agent.credential_verified
    /\ Len(args.source_agent.trust_policies) = 2
    /\ args.target_agent.metadata # PyDict(<<>>)
    /\ ret.allowed = FALSE

\* C2: for two verified agents, allowed is true exactly when the score is
\* at least 0.7 and no policy failed; a failed policy makes allowed false
\* also when the mean score is 0.7 or more.
C2_FinalDecision ==
    (Returned("verify_trust") /\ BothVerified)
    => /\ ret.allowed <=> (10 * ret.score[1] >= 7 * ret.score[2]
                           /\ ret.policies_failed = <<>>)
       /\ Len(ret.policies_failed) > 0 => ~ret.allowed

\* one of two policies failed with score 0.5, the mean 0.75 is above the
\* threshold and the call is rejected
C2_Witness ==
    /\ Returned("verify_trust") /\ BothVerified
    /\ ret.score = <<3, 4>>
    /\ Len(ret.policies_failed) = 1 /\ Len(ret.policies_passed) = 1
    /\ ~ret.allowed

\* C3 as claimed: two verified agents and a source without trust policies
\* give score = 0.0 and allowed = false.
C3_EmptySourcePoliciesRejected ==
    (Returned("verify_trust") /\ BothVerified
        /\ Len(args.source_agent.trust_policies) = 0)
    => ret.score = <<0, 1>> /\ ~ret.allowed

\* C3, amended: _calculate_trust_score returns 0.0 for an empty list, which
\* is below the threshold; verify_trust never scores an empty list, because
\* for a verified source without trust policies it evaluates the two default
\* policies, and it then allows the call with score 1.0 exactly when the
\* target passes both.
C3_EmptyListScoresZero ==
    /\ (Returned("_calculate_trust_score") /\ Len(args.policy_results) = 0)
       => ret = <<0, 1>> /\ 10 * ret[1] < 7 * ret[2]
    /\ (Returned("verify_trust") /\ BothVerified
            /\ Len(args.source_agent.trust_policies) = 0)
       => /\ Len(ret.verification_details.policy_results) = 2
          /\ Len(ret.policies_passed) + Len(ret.policies_failed) = 2
          /\ ret.allowed <=> Len(ret.policies_passed) = 2
          /\ ret.allowed => ret.score = <<1, 1>>

\* a verified source without policies was allowed to reach a verified target
C3_Witness ==
    /\ Returned("verify_trust") /\ BothVerified
    /\ Len(args.source_agent.trust_policies) = 0
    /\ ret.allowed /\ ret.score = <<1, 1>>

\* C4: verify_trust evaluates exactly the source's trust_policies when that
\* list is non-empty and otherwise exactly the default pair (esg_score with
\* min 60; jurisdiction with preferred EU, US, CA, UK, AU and blocked
\* SANCTIONED), each against the target; the sets are never mixed and the
\* target's own policies are never evaluated.
C4_PolicySelection ==
    (Returned("verify_trust") /\ BothVerified)
    => /\ Len(args.source_agent.trust_policies) > 0
            => EvaluatedPolicies = args.source_agent.trust_policies
       /\ Len(args.source_agent.trust_policies) = 0
            => /\ Len(EvaluatedPolicies) = 2
               /\ EvaluatedPolicies[1].rules =
                    << <<"esg_score", PyDict(<< <<"min", PyInt(60)>> >>)>> >>
               /\ EvaluatedPolicies[2].rules =
                    << <<"jurisdiction",
                         PyDict(<< <<"preferred", StrList(<<"EU", "US", "CA", "UK", "AU">>)>>,
                                   <<"blocked", StrList(<<"SANCTIONED">>)>> >>)>> >>
       /\ \A i \in DOMAIN calls :
            calls[i].fn = "_evaluate_policy" => calls[i].agent = args.target_agent
       /\ Len(ret.verification_details.policy_results) = Len(EvaluatedPolicies)

\* a source with one policy of its own met a target that carries a policy
\* of its own
C4_Witness ==
    /\ Returned("verify_trust") /\ BothVerified
    /\ Len(args.source_agent.trust_policies) = 1
    /\ Len(args.target_agent.trust_policies) = 1
    /\ Len(EvaluatedPolicies) = 1

\* the number of rule results in details with passed = false
FailedRules(details) ==
    Cardinality({i \in DOMAIN details : ~details[i][2].passed})

RECURSIVE HalfToThe(_)
HalfToThe(k) == IF k = 0 THEN <<1, 1>> ELSE <<1, 2 * HalfToThe(k - 1)[2]>>

\* the attributes of the agent can be resolved: its credential has no
\* credentialSubject that is not a mapping
Resolves(agent) == ~IsRaise(_extract_agent_data(agent))

\* C5: for every policy and every resolved attribute set, _evaluate_policy
\* records one result per rule and returns score = 0.5^k for the k rules
\* whose result has passed = false, and passed = true iff k = 0; a policy
\* without rules passes with score 1.0.
C5_PolicyScoring ==
    (Returned("_evaluate_policy") /\ Resolves(args.target_agent))
    => /\ Len(ret.details) = Len(args.policy.rules)
       /\ \A i \in DOMAIN ret.details :
             ret.details[i] =
                <<args.policy.rules[i][1],
                  _evaluate_rule(args.policy.rules[i][1], args.policy.rules[i][2],
                                 _extract_agent_data(args.target_agent).value)>>
       /\ ret.score = HalfToThe(FailedRules(ret.details))
       /\ ret.passed <=> FailedRules(ret.details) = 0
       /\ Len(args.policy.rules) = 0 => ret.passed /\ ret.score = <<1, 1>>

\* a policy of three rules, two of them failed
C5_Witness ==
    /\ Returned("_evaluate_policy") /\ Resolves(args.target_agent)
    /\ Len(args.policy.rules) = 3
    /\ FailedRules(ret.details) = 2
    /\ ret.score = <<1, 4>> /\ ~ret.passed

\* the sum of the scores in quarters (every score handed to
\* _calculate_trust_score directly is a multiple of 1/4)
RECURSIVE Quarters(_)
Quarters(policy_results) ==
    IF Len(policy_results) = 0 THEN 0
    ELSE (4 * Head(policy_results).score[1]) \div Head(policy_results).score[2]
         + Quarters(Tail(policy_results))

\* C6: _calculate_trust_score returns the arithmetic mean of the scores,
\* capped at 1.0, and 0.0 for an empty list; the score of every verify_trust
\* result lies in [0, 1].
C6_ScoreAggregation ==
    /\ Returned("_calculate_trust_score")
       => LET n == Len(args.policy_results)
              total == Quarters(args.policy_results)
          IN  /\ n = 0 => ret = <<0, 1>>
              /\ (n > 0 /\ total <= 4 * n) => ret[1] * 4 * n = total * ret[2]
              /\ (n > 0 /\ total > 4 * n) => ret = <<1, 1>>
    /\ Returned("verify_trust")
       => 0 <= ret.score[1] /\ ret.score[1] <= ret.score[2]

\* three results with scores 0.25, 0.5 and 1.0 have the mean 7/12
C6_Witness ==
    /\ Returned("_calculate_trust_score")
    /\ Len(args.policy_results) = 3
    /\ Quarters(args.policy_results) = 7
    /\ ret = <<7, 12>>

Orders(n) == {f \in [1..n -> 1..n] : \A i, j \in 1..n : f[i] = f[j] => i = j}

\* C7: for every policy and target, evaluating the rules of the policy in
\* any other order gives the same passed and the same score.
C7_RuleOrderIndependence ==
    Returned("_evaluate_policy")
    => \A f \in Orders(Len(args.policy.rules)) :
          LET permuted == [args.policy EXCEPT
                              !.rules = [i \in DOMAIN f |-> args.policy.rules[f[i]]]]
              other == _evaluate_policy(permuted, args.target_agent)
          IN  other.passed = ret.passed /\ other.score = ret.score

\* a policy whose first rule failed and whose last rule passed
C7_Witness ==
    /\ Returned("_evaluate_policy")
    /\ Len(args.policy.rules) = 3
    /\ Len(ret.details) = 3
    /\ ~ret.details[1][2].passed
    /\ ret.details[3][2].passed
    /\ ~ret.passed

\* C8: a jurisdiction rule whose blocked list holds the target's
\* jurisdiction fails, whatever the allowed and preferred lists are, also
\* when they hold the same jurisdiction.
C8_BlockedTakesPrecedence ==
    (/\ Returned("_evaluate_rule") /\ args.rule_name = "jurisdiction"
     /\ HasKey(args.agent_data, "jurisdiction")
     /\ HasKey(args.rule_config.dict, "blocked")
     /\ IsList(Lookup(args.rule_config.dict, "blocked"))
     /\ \E i \in DOMAIN Lookup(args.rule_config.dict, "blocked").list :
           Lookup(args.rule_config.dict, "blocked").list[i]
             = Lookup(args.agent_data, "jurisdiction"))
    => ret.passed = FALSE

\* the jurisdiction is in the blocked, the allowed and the preferred list
C8_Witness ==
    /\ Returned("_evaluate_rule") /\ args.rule_name = "jurisdiction"
    /\ args.agent_data = << <<"jurisdiction", PyStr("SANCTIONED")>> >>
    /\ args.rule_config =
         PyDict(<< <<"allowed", StrList(<<"SANCTIONED", "EU">>)>>,
                   <<"blocked", StrList(<<"SANCTIONED">>)>>,
                   <<"preferred", StrList(<<"SANCTIONED">>)>> >>)
    /\ ret.passed = FALSE

\* C9 as claimed: an esg_score rule with config {min: 85} passes exactly
\* when the target's esg_score is at least 85, for every esg_score value.
C9_EsgMin85 ==
    (/\ Returned("_evaluate_rule") /\ args.rule_name = "esg_score"
     /\ args.rule_config = PyDict(<< <<"min", PyInt(85)>> >>)
     /\ HasKey(args.agent_data, "esg_score"))
    => LET esg == Lookup(args.agent_data, "esg_score")
       IN  ret.passed <=> (IsInt(esg) /\ esg.int >= 85)

\* C9, amended: an esg_score rule with config {min: 85} passes exactly when
\* the target's esg_score is at least 85 and at most 100, the default max
\* (85 passes, 84 fails, 101 fails).
C9_EsgMin85Max100 ==
    (/\ Returned("_evaluate_rule") /\ args.rule_name = "esg_score"
     /\ args.rule_config = PyDict(<< <<"min", PyInt(85)>> >>)
     /\ HasKey(args.agent_data, "esg_score"))
    => LET esg == Lookup(args.agent_data, "esg_score")
       IN  ret.passed <=> (IsInt(esg) /\ esg.int >= 85 /\ esg.int <= 100)

\* the boundary value 85 passed
C9_Witness ==
    /\ Returned("_evaluate_rule") /\ args.rule_name = "esg_score"
    /\ args.rule_config = PyDict(<< <<"min", PyInt(85)>> >>)
    /\ args.agent_data = << <<"esg_score", PyInt(85)>> >>
    /\ ret.passed

\* the config is a mapping whose min and max, where present, are numbers
NumericRange(rule_config) ==
    /\ IsDict(rule_config)
    /\ \A i \in DOMAIN rule_config.dict : IsInt(rule_config.dict[i][2])

\* C10: the esg_score rule passes exactly when min <= esg_score <= max, both
\* bounds inclusive, where a missing min is 0 and a missing max is 100.
C10_EsgRange ==
    (/\ Returned("_evaluate_rule") /\ args.rule_name = "esg_score"
     /\ NumericRange(args.rule_config)
     /\ HasKey(args.agent_data, "esg_score")
     /\ IsInt(Lookup(args.agent_data, "esg_score")))
    => LET esg == Lookup(args.agent_data, "esg_score").int
           cfg == args.rule_config.dict
           lo == IF HasKey(cfg, "min") THEN Lookup(cfg, "min").int ELSE 0
           hi == IF HasKey(cfg, "max") THEN Lookup(cfg, "max").int ELSE 100
       IN  ret.passed <=> (lo <= esg /\ esg <= hi)

\* without min and max the score 100 passed
C10_Witness ==
    /\ Returned("_evaluate_rule") /\ args.rule_name = "esg_score"
    /\ args.rule_config = PyDict(<<>>)
    /\ args.agent_data = << <<"esg_score", PyInt(100)>> >>
    /\ ret.passed

BuiltInRules == {"esg_score", "jurisdiction", "organization_size", "sector"}

\* the items of the dict whose key is a built-in rule name, in order
KnownRules(rules) == SelectSeq(rules, LAMBDA item : item[1] \in BuiltInRules)

\* C11: for every rule name other than esg_score, jurisdiction,
\* organization_size and sector and for every config, a mapping or not,
\* _evaluate_rule returns passed = true; such a rule in a policy changes
\* neither the score nor passed: the policy evaluates as it does without it.
C11_UnknownRulePasses ==
    /\ (Returned("_evaluate_rule") /\ args.rule_name \notin BuiltInRules)
       => ret.passed = TRUE
    /\ Returned("_evaluate_policy")
       => LET without == _evaluate_policy(
                            [args.policy EXCEPT !.rules = KnownRules(@)],
                            args.target_agent)
          IN  /\ without.passed = ret.passed
              /\ without.score = ret.score
              /\ Resolves(args.target_agent)
                    => \A i \in DOMAIN ret.details :
                          ret.details[i][1] \notin BuiltInRules
                            => ret.details[i][2].passed

\* the rule "foo" was evaluated with a config that is no mapping
C11_Witness ==
    /\ Returned("_evaluate_rule")
    /\ args.rule_name = "foo"
    /\ args.rule_config = PyInt(5)
    /\ ret.passed

\* the claims of the agent's credential: the credentialSubject mapping of a
\* non-empty credential, no claims without one
SubjectClaims(agent) ==
    IF Truthy(agent.vlei_credential)
        /\ HasKey(agent.vlei_credential.dict, "credentialSubject")
    THEN Lookup(agent.vlei_credential.dict, "credentialSubject").dict
    ELSE <<>>

\* the credential is absent or empty, has no credentialSubject, or has one
\* that is a mapping
ClaimsReadable(agent) ==
    (Truthy(agent.vlei_credential)
        /\ HasKey(agent.vlei_credential.dict, "credentialSubject"))
    => IsDict(Lookup(agent.vlei_credential.dict, "credentialSubject"))

DetailItems(agent) ==
    IF IsDict(agent.verification_details) THEN agent.verification_details.dict ELSE <<>>

BuiltInDefaults ==
    << <<"esg_score", PyInt(75)>>, <<"jurisdiction", PyStr("EU")>>,
       <<"organization_size", PyStr("medium")>>, <<"sector", PyStr("technology")>> >>

KeysOf(d) == {d[i][1] : i \in DOMAIN d}

\* two dicts hold the same keys with the same values
SameMapping(d, e) ==
    /\ KeysOf(d) = KeysOf(e)
    /\ \A k \in KeysOf(d) : Lookup(d, k) = Lookup(e, k)

\* C12: for every key the resolved value is the credentialSubject claim if
\* the credential has the key, else the verification_details value, else
\* the metadata value, else the built-in default (esg_score 75, jurisdiction
\* EU, organization_size medium, sector technology); a key in none of them
\* is absent.  This is the merge of defaults, metadata, verification details
\* and claims in that order, later overriding earlier.
C12_ResolutionPrecedence ==
    (Returned("_extract_agent_data") /\ ClaimsReadable(args.agent))
    => LET claims == SubjectClaims(args.agent)
           details == DetailItems(args.agent)
           metadata == args.agent.metadata.dict
           sources == <<claims, details, metadata, BuiltInDefaults>>
           keys == UNION {KeysOf(sources[n]) : n \in 1..4}
           first(k) == CHOOSE n \in 1..4 :
                          /\ HasKey(sources[n], k)
                          /\ \A m \in 1..(n - 1) : ~HasKey(sources[m], k)
       IN  /\ ~IsRaise(ret)
           /\ UniqueKeys(ret.value)
           /\ KeysOf(ret.value) = keys
           /\ \A k \in keys : Lookup(ret.value, k) = Lookup(sources[first(k)], k)
           /\ SameMapping(ret.value,
                          Update(Update(Update(BuiltInDefaults, metadata), details), claims))

\* esg_score is in the metadata, the verification details and the
\* credential, and the credential's value was taken; sector came from the
\* metadata and organization_size from the defaults
C12_Witness ==
    /\ Returned("_extract_agent_data")
    /\ HasKey(args.agent.metadata.dict, "esg_score")
    /\ HasKey(args.agent.metadata.dict, "sector")
    /\ HasKey(DetailItems(args.agent), "esg_score")
    /\ ClaimsReadable(args.agent)
    /\ HasKey(SubjectClaims(args.agent), "esg_score")
    /\ ~IsRaise(ret)
    /\ Lookup(ret.value, "esg_score") = PyInt(85)
    /\ Lookup(ret.value, "sector") = PyStr("weapons")
    /\ Lookup(ret.value, "organization_size") = PyStr("medium")

\* the config of a built-in rule is malformed: it is not a mapping, or a
\* bound the rule reads is not a number, or a list the rule reads is not a
\* collection
Malformed(rule_name, rule_config) ==
    \/ ~IsDict(rule_config)
    \/ /\ IsDict(rule_config)
       /\ \E k \in (CASE rule_name = "esg_score" -> {"min", "max"}
                      [] rule_name = "organization_size" -> {"allowed"}
                      [] OTHER -> {"allowed", "blocked"}) :
             /\ HasKey(rule_config.dict, k)
             /\ IF rule_name = "esg_score"
                THEN ~IsInt(Lookup(rule_config.dict, k))
                ELSE ~IsList(Lookup(rule_config.dict, k))

\* C13: _evaluate_rule returns a result for every rule name and config, and
\* a malformed config of a built-in rule gives passed = false with a reason.
\* (The code returns a result in every case, but a blocked list that is
\* None is read as no list: the rule passes.)
C13_MalformedConfigRejected ==
    Returned("_evaluate_rule")
    => /\ ~IsRaise(ret)
       /\ ret.passed \in BOOLEAN
       /\ (args.rule_name \in BuiltInRules /\ Malformed(args.rule_name, args.rule_config))
          => (~ret.passed /\ "reason" \in DOMAIN ret)

\* the rule results of a policy result whose reason says the rule raised
RuleErrors(policy_result) ==
    {j \in DOMAIN policy_result.details :
        /\ policy_result.details[j][1] # "error"
        /\ policy_result.details[j][2].reason[1] = "Rule evaluation error: "}

\* C14: verify_trust returns a result in every case.  A policy whose
\* evaluation raises (the target's attributes cannot be resolved) gets
\* passed = false and score 0.0, a rule that raises fails its policy, and
\* either rejects the call; an exception in verify_trust's own body (an
\* argument that is not an Agent) gives allowed = false, score 0.0 and
\* policies_failed = ["system_error"].  No error path gives allowed = true.
C14_NeverRaises ==
    /\ (Returned("_evaluate_policy") /\ ~Resolves(args.target_agent))
       => ret.passed = FALSE /\ ret.score = <<0, 1>>
    /\ Returned("verify_trust")
       => /\ ret.allowed \in BOOLEAN
          /\ ~BothAgents
                => /\ ret.allowed = FALSE
                   /\ ret.score = <<0, 1>>
                   /\ ret.policies_passed = <<>>
                   /\ ret.policies_failed = <<"system_error">>
          /\ BothVerified
                => LET policy_results == ret.verification_details.policy_results
                   IN  /\ ~Resolves(args.target_agent)
                            => /\ \A i \in DOMAIN policy_results :
                                     /\ policy_results[i].passed = FALSE
                                     /\ policy_results[i].score = <<0, 1>>
                               /\ ret.score = <<0, 1>>
                               /\ ret.policies_passed = <<>>
                               /\ ret.allowed = FALSE
                       /\ \A i \in DOMAIN policy_results :
                             (Resolves(args.target_agent)
                                 /\ RuleErrors(policy_results[i]) # {})
                             => /\ policy_results[i].passed = FALSE
                                /\ ret.allowed = FALSE

\* two verified agents, and the target's credentialSubject is not a
\* mapping: both of the source's policies raised and the call was rejected
C14_Witness ==
    /\ Returned("verify_trust") /\ BothVerified
    /\ ~Resolves(args.target_agent)
    /\ Len(args.source_agent.trust_policies) = 2
    /\ Len(ret.policies_failed) = 2
    /\ ret.score = <<0, 1>>
    /\ ~ret.allowed

\* the result without the time it was made at
Untimed(result) ==
    IF "timestamp" \in DOMAIN result.verification_details
    THEN [result EXCEPT !.verification_details = [policy_results |-> @.policy_results]]
    ELSE result

ListAt(rule_config, k) ==
    IF HasKey(rule_config.dict, k) THEN Lookup(rule_config.dict, k).list ELSE <<>>

\* the config is a mapping and what it gives under the keys is a list
ListsAt(rule_config, keys) ==
    /\ IsDict(rule_config)
    /\ \A k \in keys :
          HasKey(rule_config.dict, k) => IsList(Lookup(rule_config.dict, k))

Holds(list, x) == \E i \in DOMAIN list : list[i] = x

\* the config with its preferred entry replaced by the items p (none or one)
WithPreferred(rule_config, p) ==
    PyDict(SelectSeq(rule_config.dict, LAMBDA item : item[1] # "preferred") \o p)

\* C16: for a jurisdiction that is not in the blocked list, the jurisdiction
\* rule fails iff the allowed list is non-empty and does not hold the
\* jurisdiction (an agent without one counts as UNKNOWN); replacing or
\* removing the preferred list never changes passed.
C16_AllowList ==
    (/\ Returned("_evaluate_rule") /\ args.rule_name = "jurisdiction"
     /\ ListsAt(args.rule_config, {"allowed", "blocked", "preferred"}))
    => LET j == Get(args.agent_data, "jurisdiction", PyStr("UNKNOWN"))
           allowed_list == ListAt(args.rule_config, "allowed")
           blocked_list == ListAt(args.rule_config, "blocked")
       IN  /\ ~Holds(blocked_list, j)
                => (ret.passed = FALSE
                      <=> (Len(allowed_list) > 0 /\ ~Holds(allowed_list, j)))
           /\ \A p \in OptItem("preferred",
                               {StrList(<<>>), StrList(<<"EU">>), StrList(<<"US", "XX">>),
                                StrList(<<"SANCTIONED">>)}) :
                 _evaluate_rule("jurisdiction", WithPreferred(args.rule_config, p),
                                args.agent_data).passed = ret.passed

\* a jurisdiction outside the allowed list failed although the preferred
\* list holds it; nothing is blocked
C16_Witness ==
    /\ Returned("_evaluate_rule") /\ args.rule_name = "jurisdiction"
    /\ args.agent_data = << <<"jurisdiction", PyStr("SANCTIONED")>> >>
    /\ args.rule_config =
         PyDict(<< <<"allowed", StrList(<<"EU", "US">>)>>,
                   <<"blocked", StrList(<<>>)>>,
                   <<"preferred", StrList(<<"SANCTIONED">>)>> >>)
    /\ ret.passed = FALSE
    /\ ret.reason[3] = " is not in allowed list"

\* C17: the sector rule fails for a sector in the blocked list, also when
\* the allowed list holds it; for a sector not blocked it fails iff the
\* allowed list is non-empty and does not hold the sector; with neither
\* list configured it passes for every sector (an agent without one counts
\* as unknown).
C17_SectorRule ==
    (/\ Returned("_evaluate_rule") /\ args.rule_name = "sector"
     /\ ListsAt(args.rule_config, {"allowed", "blocked"}))
    => LET sector == Get(args.agent_data, "sector", PyStr("unknown"))
           allowed_list == ListAt(args.rule_config, "allowed")
           blocked_list == ListAt(args.rule_config, "blocked")
       IN  /\ Holds(blocked_list, sector)
                => /\ ret.passed = FALSE
                   /\ ret.reason = <<"Sector ", sector, " is blocked">>
           /\ ~Holds(blocked_list, sector)
                => (ret.passed = FALSE
                      <=> (Len(allowed_list) > 0 /\ ~Holds(allowed_list, sector)))
           /\ (~HasKey(args.rule_config.dict, "allowed")
                 /\ ~HasKey(args.rule_config.dict, "blocked"))
                => ret.passed = TRUE

\* the sector is in the allowed and in the blocked list, and was blocked
C17_Witness ==
    /\ Returned("_evaluate_rule") /\ args.rule_name = "sector"
    /\ args.agent_data = << <<"sector", PyStr("weapons")>> >>
    /\ args.rule_config =
         PyDict(<< <<"allowed", StrList(<<"technology", "weapons">>)>>,
                   <<"blocked", StrList(<<"weapons">>)>> >>)
    /\ ret.passed = FALSE

\* C18: the organization_size rule passes iff the allowed list of the
\* config holds the agent's organization_size, where a config without an
\* allowed list means small, medium, large, enterprise (and an agent
\* without a size counts as medium); an empty allowed list holds no size.
C18_SizeRule ==
    (/\ Returned("_evaluate_rule") /\ args.rule_name = "organization_size"
     /\ ListsAt(args.rule_config, {"allowed"}))
    => LET size == Get(args.agent_data, "organization_size", PyStr("medium"))
           allowed_list ==
               IF HasKey(args.rule_config.dict, "allowed")
               THEN ListAt(args.rule_config, "allowed")
               ELSE StrList(<<"small", "medium", "large", "enterprise">>).list
       IN  ret.passed <=> Holds(allowed_list, size)

\* the allowed list is empty and a size of the default set failed
C18_Witness ==
    /\ Returned("_evaluate_rule") /\ args.rule_name = "organization_size"
    /\ args.rule_config = PyDict(<< <<"allowed", StrList(<<>>)>> >>)
    /\ args.agent_data = << <<"organization_size", PyStr("enterprise")>> >>
    /\ ret.passed = FALSE

\* the value the agent's attribute k resolves to: the first of the
\* credential's claims, the verification details, the metadata and the
\* built-in defaults that has the key
Resolved(agent, k) ==
    IF HasKey(SubjectClaims(agent), k) THEN Lookup(SubjectClaims(agent), k)
    ELSE IF HasKey(DetailItems(agent), k) THEN Lookup(DetailItems(agent), k)
    ELSE IF HasKey(agent.metadata.dict, k) THEN Lookup(agent.metadata.dict, k)
    ELSE Lookup(BuiltInDefaults, k)

\* the source's only policy has the one rule esg_score: {min: n}
OnlyPolicyEsgMin(n) ==
    /\ Len(args.source_agent.trust_policies) = 1
    /\ args.source_agent.trust_policies[1].rules =
          << <<"esg_score", PyDict(<< <<"min", PyInt(n)>> >>)>> >>

\* C19: a verified source whose only policy is {esg_score: {min: 85}} and a
\* verified target whose esg_score resolves to 88 give allowed = true,
\* policies_failed = [] and score = 1.0.
C19_EndToEndAcceptance ==
    (/\ Returned("verify_trust") /\ BothVerified
     /\ OnlyPolicyEsgMin(85)
     /\ ClaimsReadable(args.target_agent)
     /\ Resolved(args.target_agent, "esg_score") = PyInt(88))
    => /\ ret.allowed = TRUE
       /\ ret.policies_failed = <<>>
       /\ ret.policies_passed = <<args.source_agent.trust_policies[1].name>>
       /\ ret.score = <<1, 1>>

\* the target's 88 comes from its metadata, next to a credential that
\* names an issuer only
C19_Witness ==
    /\ Returned("verify_trust") /\ BothVerified
    /\ OnlyPolicyEsgMin(85)
    /\ HasKey(args.target_agent.metadata.dict, "esg_score")
    /\ Lookup(args.target_agent.metadata.dict, "esg_score") = PyInt(88)
    /\ Truthy(args.target_agent.vlei_credential)
    /\ ClaimsReadable(args.target_agent)
    /\ SubjectClaims(args.target_agent) = <<>>
    /\ IsNone(args.target_agent.verification_details)
    /\ ret.allowed /\ ret.score = <<1, 1>>

\* C20: a verified source whose only policy is {esg_score: {min: 90}} and a
\* verified target whose esg_score resolves to 45 give allowed = false,
\* policies_failed = [the policy's name] and score = 0.5.
C20_EndToEndRejection ==
    (/\ Returned("verify_trust") /\ BothVerified
     /\ OnlyPolicyEsgMin(90)
     /\ ClaimsReadable(args.target_agent)
     /\ Resolved(args.target_agent, "esg_score") = PyInt(45))
    => /\ ret.allowed = FALSE
       /\ ret.policies_failed = <<args.source_agent.trust_policies[1].name>>
       /\ ret.policies_passed = <<>>
       /\ ret.score = <<1, 2>>

\* the policy "Strict ESG" rejected a target whose metadata gives 45
C20_Witness ==
    /\ Returned("verify_trust") /\ BothVerified
    /\ OnlyPolicyEsgMin(90)
    /\ ClaimsReadable(args.target_agent)
    /\ Resolved(args.target_agent, "esg_score") = PyInt(45)
    /\ ret.policies_failed = <<"Strict ESG">>
    /\ ret.score = <<1, 2>>
    /\ ~ret.allowed

\* C21 as claimed: the reason of an allowed call is the literal "accepted",
\* and the reason of a call rejected after policy evaluation is the failed
\* policy names joined by commas.
C21_ReasonAccepted ==
    (Returned("verify_trust") /\ BothVerified)
    => /\ ret.allowed => ret.reason = <<"accepted">>
       /\ ~ret.allowed
            => /\ Len(ret.reason) = 2 * Len(ret.policies_failed) - 1
               /\ \A i \in DOMAIN ret.policies_failed :
                     ret.reason[2 * i - 1] = ret.policies_failed[i]

\* C21, amended: the reason of an allowed call is the literal "Trust
\* verification passed"; the reason of a call rejected after policy
\* evaluation is "Failed policies: " followed by the names in
\* policies_failed, in that order, with ", " between them.
C21_ReasonText ==
    (Returned("verify_trust") /\ BothVerified)
    => /\ ret.allowed => ret.reason = <<"Trust verification passed">>
       /\ ~ret.allowed
            => /\ Len(ret.reason) = 2 * Len(ret.policies_failed)
               /\ ret.reason[1] = "Failed policies: "
               /\ \A i \in DOMAIN ret.policies_failed :
                     /\ ret.reason[2 * i] = ret.policies_failed[i]
                     /\ i > 1 => ret.reason[2 * i - 1] = ", "

\* two policies failed and the reason names both, in the order of the
\* source's policies
C21_Witness ==
    /\ Returned("verify_trust") /\ BothVerified
    /\ ret.policies_failed = <<"Strict ESG", "No sanctions">>
    /\ ret.reason = <<"Failed policies: ", "Strict ESG", ", ", "No sanctions">>

\* the agent with the other value of credential_verified
Flipped(agent) == [agent EXCEPT !.credential_verified = ~@]

\* C22 as claimed: the reason of a gate rejection mentions
\* "credential_verification" and names the unverified side, so the reason
\* for an unverified source and a verified target differs from the reason
\* for the same agents with the flags exchanged.
C22_ReasonNamesSide ==
    (/\ Returned("verify_trust") /\ BothAgents
     /\ args.source_agent.credential_verified # args.target_agent.credential_verified)
    => /\ \E i \in DOMAIN ret.reason : ret.reason[i] = "credential_verification"
       /\ ret.reason # verify_trust(Flipped(args.source_agent),
                                    Flipped(args.target_agent), args.now).reason

\* C22, amended: every gate rejection (source, target or both unverified)
\* has the one reason "One or both agents lack verified vLEI credentials";
\* "credential_verification" is the entry of policies_failed, and the
\* unverified side is told by verification_details.source_verified and
\* target_verified, which repeat the agents' flags.
C22_GateReason ==
    (Returned("verify_trust") /\ BothAgents /\ ~BothVerified)
    => /\ ret.reason = <<"One or both agents lack verified vLEI credentials">>
       /\ ret.policies_failed = <<"credential_verification">>
       /\ ret.verification_details =
            [source_verified |-> args.source_agent.credential_verified,
             target_verified |-> args.target_agent.credential_verified]

\* only the target is unverified
C22_Witness ==
    /\ Returned("verify_trust") /\ BothAgents
    /\ args.source_agent.credential_verified
    /\ ~args.target_agent.credential_verified
    /\ ret.reason = <<"One or both agents lack verified vLEI credentials">>
    /\ ret.verification_details.target_verified = FALSE
    /\ ret.verification_details.source_verified = TRUE

\* C23 as claimed: when the jurisdiction rule passes, the preference flag
\* it records is true iff the preferred list holds the jurisdiction, so it
\* is false when no preferred list is configured.
C23_PreferredIffMember ==
    (/\ Returned("_evaluate_rule") /\ args.rule_name = "jurisdiction"
     /\ ListsAt(args.rule_config, {"allowed", "blocked", "preferred"})
     /\ ret.passed)
    => (ret.preferred
          <=> Holds(ListAt(args.rule_config, "preferred"),
                    Get(args.agent_data, "jurisdiction", PyStr("UNKNOWN"))))

\* C23, amended: when the jurisdiction rule passes, the preference flag is
\* true iff the preferred list is missing or empty or holds the
\* jurisdiction, and the reason says "preferred" for a true flag and
\* "acceptable" for a false one.
C23_PreferredFlag ==
    (/\ Returned("_evaluate_rule") /\ args.rule_name = "jurisdiction"
     /\ ListsAt(args.rule_config, {"allowed", "blocked", "preferred"})
     /\ ret.passed)
    => LET j == Get(args.agent_data, "jurisdiction", PyStr("UNKNOWN"))
           preferred_list == ListAt(args.rule_config, "preferred")
       IN  /\ ret.preferred <=> (Len(preferred_list) = 0 \/ Holds(preferred_list, j))
           /\ ret.reason = <<"Jurisdiction ", j, " is ",
                             IF ret.preferred THEN "preferred" ELSE "acceptable">>

\* the config has no preferred list and the rule passed with the flag set
C23_Witness ==
    /\ Returned("_evaluate_rule") /\ args.rule_name = "jurisdiction"
    /\ args.rule_config = PyDict(<< <<"allowed", StrList(<<"EU", "US">>)>> >>)
    /\ args.agent_data = << <<"jurisdiction", PyStr("US")>> >>
    /\ ret.passed /\ ret.preferred

\* the positions in calls of the calls of fn
CallsOf(fn) == {i \in DOMAIN calls : calls[i].fn = fn}

NamesWith(flag) ==
    LET results == ret.verification_details.policy_results
        idx == SelectSeq([i \in 1..Len(EvaluatedPolicies) |-> i],
                         LAMBDA i : results[i].passed = flag)
    IN  [k \in 1..Len(idx) |-> EvaluatedPolicies[idx[k]].name]

\* C25: for two verified agents, policies_passed holds the names of the
\* selected policies whose result passed and policies_failed the names of
\* those whose result failed, each in the order of the policies, one entry
\* per policy also when two policies share a name; the two lengths add up
\* to the number of selected policies.
C25_PassFailPartition ==
    (Returned("verify_trust") /\ BothVerified)
    => /\ Len(ret.verification_details.policy_results) = Len(EvaluatedPolicies)
       /\ ret.policies_passed = NamesWith(TRUE)
       /\ ret.policies_failed = NamesWith(FALSE)
       /\ Len(ret.policies_passed) + Len(ret.policies_failed) = Len(EvaluatedPolicies)

\* two policies of one name: both failed, and the name is listed twice
C25_Witness ==
    /\ Returned("verify_trust") /\ BothVerified
    /\ Len(args.source_agent.trust_policies) = 2
    /\ args.source_agent.trust_policies[1].name = args.source_agent.trust_policies[2].name
    /\ args.source_agent.trust_policies[1] # args.source_agent.trust_policies[2]
    /\ ret.policies_failed = <<"High ESG", "High ESG">>
    /\ ret.policies_passed = <<>>

\* C28: for two verified agents, allowed = true iff every selected policy
\* passed iff score = 1.0; so no allowed result has a score below 1.0, and
\* the outcome is the same as without the 0.7 threshold.  (At least one
\* policy is always selected: the default policies are two.)
C28_AcceptanceIffPerfectScore ==
    (Returned("verify_trust") /\ BothVerified)
    => LET results == ret.verification_details.policy_results
           all_passed == \A i \in DOMAIN results : results[i].passed
       IN  /\ Len(results) > 0
           /\ ret.allowed <=> all_passed
           /\ all_passed <=> ret.score = <<1, 1>>
           /\ ret.allowed => ret.score[1] = ret.score[2]
           /\ ret.allowed <=> Len(ret.policies_failed) = 0

\* a call rejected with a score above the threshold: three quarters, from
\* one policy passed and one failed by a single rule
C28_Witness ==
    /\ Returned("verify_trust") /\ BothVerified
    /\ 10 * ret.score[1] >= 7 * ret.score[2]
    /\ ret.score # <<1, 1>>
    /\ ~ret.allowed
    /\ Len(ret.policies_passed) = 1

\* C27: every active agent of agents_db has credential_verified = true;
\* an activate_agent request for an unverified agent is answered with 400
\* and one for an unknown id with 404, both leaving agents_db (status and
\* last_active included) as it was; an accepted one changes nothing but
\* the status and last_active of its agent.
C27_ActivationInvariant ==
    [][/\ \A i \in DOMAIN agents_db' :
             agents_db'[i].status = "active" => agents_db'[i].credential_verified
       /\ (response'.op = "activate_agent" /\ response' # response)
             => /\ response'.agent_id \notin DOMAIN agents_db
                   => (response'.status = 404 /\ agents_db' = agents_db)
                /\ (/\ response'.agent_id \in DOMAIN agents_db
                    /\ ~agents_db[response'.agent_id].credential_verified)
                   => (response'.status = 400 /\ agents_db' = agents_db)
                /\ response'.status = 200
                   => /\ agents_db[response'.agent_id].credential_verified
                      /\ IsStr(agents_db'[response'.agent_id].last_active)
                      /\ agents_db' =
                           [agents_db EXCEPT
                              ![response'.agent_id].status = "active",
                              ![response'.agent_id].last_active =
                                  agents_db'[response'.agent_id].last_active]]_vars

\* an agent whose credential was rejected is inactive after a refused
\* activation, next to an agent that was activated
C27_Witness ==
    /\ Len(agents_db) = 2
    /\ response.op = "activate_agent" /\ response.status = 400
    /\ response.agent_id = 2
    /\ Truthy(agents_db[2].vlei_credential)
    /\ ~agents_db[2].credential_verified
    /\ agents_db[2].status = "inactive" /\ agents_db[2].last_active = PyNone
    /\ agents_db[1].status = "active"

\* C26: a request appends a message from X to Y to messages_db only if it
\* is a send_message request whose trust check was allowed, and
\* verify_trust(X, Y) is allowed for the sender and the receiver of every
\* message appended; a blocked request leaves messages_db as it was; only
\* the checked message is broadcast.  (The code appends the AI reply from
\* the receiver to the sender without verify_trust(receiver, sender).)
C26_MessageGate ==
    [][/\ Len(messages_db') >= Len(messages_db)
       /\ SubSeq(messages_db', 1, Len(messages_db)) = messages_db
       /\ Len(messages_db') > Len(messages_db)
            => /\ response'.op = "send_message"
               /\ response'.allowed = TRUE
       /\ \A i \in (Len(messages_db) + 1)..Len(messages_db') :
             verify_trust(agents_db[messages_db'[i].from_agent_id],
                          agents_db[messages_db'[i].to_agent_id], "t1").allowed
       /\ (/\ response'.op = "send_message"
           /\ "allowed" \in DOMAIN response' /\ ~response'.allowed
           /\ response' # response)
            => messages_db' = messages_db
       /\ \A i \in (Len(broadcasts) + 1)..Len(broadcasts') :
             /\ response'.allowed = TRUE
             /\ broadcasts'[i].from_agent_id = response'.from_agent_id
             /\ broadcasts'[i].to_agent_id = response'.to_agent_id]_vars

\* the websocket the agent connected with last
LatestWebsocket(agent_id) ==
    CHOOSE w \in DOMAIN endpoints :
        /\ endpoints[w].agent_id = agent_id
        /\ \A v \in DOMAIN endpoints : endpoints[v].agent_id = agent_id => v <= w

\* C29: after every interleaving of connects and disconnects no two agents
\* share a connection id, every agent of agent_connections maps to an id
\* of active_connections that holds the websocket the agent connected with
\* last, every entry of active_connections belongs to exactly one agent,
\* and send_personal_message for an agent delivers to a websocket of that
\* agent.  (The code numbers a connection by the size of
\* active_connections, so an id is given again after a disconnect, and
\* disconnect removes the agent's current connection whichever websocket
\* closed.)
C29_ConnectionRouting ==
    /\ \A i, j \in DOMAIN agent_connections :
          agent_connections[i][2] = agent_connections[j][2] => i = j
    /\ \A i \in DOMAIN agent_connections :
          /\ HasKey(active_connections, agent_connections[i][2])
          /\ Lookup(active_connections, agent_connections[i][2])
                = LatestWebsocket(agent_connections[i][1])
    /\ \A c \in DOMAIN active_connections :
          Cardinality({i \in DOMAIN agent_connections :
                          agent_connections[i][2] = active_connections[c][1]}) = 1
    /\ ~IsNone(delivered)
          => endpoints[delivered.websocket].agent_id = delivered.agent_id

\* C29, the delivery alone: send_personal_message for an agent never
\* delivers to the websocket of another agent.
C29_NoMisdelivery ==
    ~IsNone(delivered)
       => endpoints[delivered.websocket].agent_id = delivered.agent_id

\* the call verifies the i-th demo agent against the j-th
DemoCall(i, j) ==
    /\ args.source_agent \in DemoAgents(i)
    /\ args.target_agent \in DemoAgents(j)

\* C30: with the demo agents verified, ESG Procurement Agent -> Supply
\* Chain Optimizer is allowed, Supply Chain Optimizer -> ESG Procurement
\* Agent is allowed, Sustainable Finance Agent -> Basic Trade Agent is
\* blocked and Basic Trade Agent -> Sustainable Finance Agent is allowed.
\* (The first is blocked: the target's ESG score resolves to 75, below the
\* 85 of "ESG Excellence Standard".)
C30_DemoOutcomes ==
    (Returned("verify_trust") /\ BothVerified)
       => /\ DemoCall(1, 2) => ret.allowed
          /\ DemoCall(2, 1) => ret.allowed
          /\ DemoCall(3, 4) => ~ret.allowed
          /\ DemoCall(4, 3) => ret.allowed

====
